---- MODULE Spec2Model ----
(***************************************************************************)
(* Model of StreamingJsonParser (src/src/StreamingJsonParser.ts): the      *)
(* incremental scanner / value builder driven by process(chunk) and end(). *)
(* Text is a sequence of one-character strings; source indices are 0-based *)
(* and are kept 0-based here (CharAt).  Containers live in a heap because  *)
(* the source links them by reference (stack, parent slot, rootObject).    *)
(*                                                                         *)
(* The fields start as the class declares them (buffer = "", stack = [],   *)
(* currentKey = null, rootObject = {}, ...); lastCompleteToken has no      *)
(* initialiser and slice(undefined) is slice(0), so it starts at 0.        *)
(* An "error" listener is registered, so emit("error") returns instead of  *)
(* rethrowing; the asynchronous parser is also run without one, where the  *)
(* emit rethrows.  Comments are stripped when allowComments is set.  The   *)
(* parsers of the plain runs are constructed without adaptiveChunkSizing;  *)
(* AdaptiveChunkSizer (src/src/utils/AdaptiveChunkSizer.ts) is modelled on *)
(* its own, its chunk size an exact rational, and together with the        *)
(* sub-chunk loop of process.  validateAgainstSchema is an operator on     *)
(* value trees.  AsyncStreamingJsonParser adds the promise                 *)
(* field and the callbacks queued with setImmediate.  Transform and        *)
(* reviver functions are drawn from a small set of named functions; the    *)
(* output stream is the list of strings written.  Aggregation values are   *)
(* exact rationals: the inputs are integers, for which the source's        *)
(* floating-point arithmetic is exact.                                     *)
(*                                                                         *)
(* Operators take intermediate results as parameters instead of naming     *)
(* them in LET, one operator per stage of the source function.             *)
(***************************************************************************)
EXTENDS Integers, Sequences, FiniteSets, TLC

(* ---------------------------- bounds ----------------------------------- *)
\* largest number of process and configuration calls in one run
MaxCalls == 3
\* largest number of addMetrics calls on one AdaptiveChunkSizer
MaxMetrics == 11
\* largest number of calls on a parser with a sizer: one past the five
\* samples of the first adjustment
MaxSized == 6

(* ---------------------------- characters -------------------------------- *)
QUOTE == "\""
BSLASH == "\\"
\* what buffer[i] yields past the end of the string
UNDEFINED == "undefined"
DigitChars == <<"0", "1", "2", "3", "4", "5", "6", "7", "8", "9">>

CharAt(buf, i) == IF i >= 0 /\ i < Len(buf) THEN buf[i + 1] ELSE UNDEFINED

\* buffer.slice(from) and buffer.slice(from, to), 0-based, end exclusive
SliceFrom(buf, from) == SubSeq(buf, from + 1, Len(buf))
Slice(buf, from, to) ==
    SubSeq(buf, from + 1, IF to > Len(buf) THEN Len(buf) ELSE to)

StartsWith(str, word) ==
    /\ Len(str) >= Len(word)
    /\ SubSeq(str, 1, Len(word)) = word

TRUE_WORD == <<"t", "r", "u", "e">>
FALSE_WORD == <<"f", "a", "l", "s", "e">>
NULL_WORD == <<"n", "u", "l", "l">>

isDigit(char) == \E d \in 1..10 : DigitChars[d] = char

DigitValue(char) == (CHOOSE d \in 1..10 : DigitChars[d] = char) - 1

(* ---------------------------- values ------------------------------------ *)
\* A value held by the parser: a scalar, undefined, or a reference to a
\* container of the heap.  Numbers are exact decimals m * 10^e, normalised.
Val(t, s, m, e, id) == [t |-> t, s |-> s, m |-> m, e |-> e, id |-> id]
StrV(s) == Val("str", s, 0, 0, 0)
NumV(m, e) == Val("num", <<>>, m, e, 0)
BoolV(b) == Val("bool", <<>>, IF b THEN 1 ELSE 0, 0, 0)
NullV == Val("null", <<>>, 0, 0, 0)
UndefV == Val("undef", <<>>, 0, 0, 0)
RefV(id) == Val("ref", <<>>, 0, 0, id)
\* new Date(value): the Date built from a value, which keeps its payload
DateV(v) == Val("date", v.s, v.m, v.e, 0)

\* A value as a listener or caller sees it: containers expanded.
Tree(t, s, m, e, items) == [t |-> t, s |-> s, m |-> m, e |-> e, items |-> items]
TStr(s) == Tree("str", s, 0, 0, <<>>)
TNum(m, e) == Tree("num", <<>>, m, e, <<>>)
TBool(b) == Tree("bool", <<>>, IF b THEN 1 ELSE 0, 0, <<>>)
TNull == Tree("null", <<>>, 0, 0, <<>>)
TUndef == Tree("undef", <<>>, 0, 0, <<>>)
TObj(items) == Tree("obj", <<>>, 0, 0, items)
TArr(items) == Tree("arr", <<>>, 0, 0, items)
TDate(s) == Tree("date", s, 0, 0, <<>>)
Member(k, v) == [k |-> k, v |-> v]
Elem(v) == [k |-> <<>>, v |-> v]

RECURSIVE Pow10(_)
Pow10(n) == IF n <= 0 THEN 1 ELSE 10 * Pow10(n - 1)

RECURSIVE Normalise(_, _)
Normalise(m, e) ==
    IF m = 0 THEN [m |-> 0, e |-> 0]
    ELSE IF m % 10 = 0 THEN Normalise(m \div 10, e + 1)
    ELSE [m |-> m, e |-> e]

(* ---------------------------- heap -------------------------------------- *)
NewObject == [kind |-> "obj", items |-> <<>>]
NewArray == [kind |-> "arr", items |-> <<>>]

HasKey(cell, key) == \E j \in 1..Len(cell.items) : cell.items[j].k = key

\* current[key] = value on a plain object: overwrite in place or append
SetKey(cell, key, value) ==
    IF HasKey(cell, key)
    THEN [cell EXCEPT !.items =
            [j \in 1..Len(cell.items) |->
                IF cell.items[j].k = key THEN Member(key, value)
                ELSE cell.items[j]]]
    ELSE [cell EXCEPT !.items = Append(cell.items, Member(key, value))]

\* current.push(value)
PushElem(cell, value) == [cell EXCEPT !.items = Append(cell.items, Elem(value))]

\* the value a listener observes when handed v at this moment
RECURSIVE Resolve(_, _)
Resolve(heap, v) ==
    IF v.t = "ref"
    THEN LET cell == heap[v.id]
         IN Tree(cell.kind, <<>>, 0, 0,
                 [j \in 1..Len(cell.items) |->
                    Member(cell.items[j].k, Resolve(heap, cell.items[j].v))])
    ELSE Tree(v.t, v.s, v.m, v.e, <<>>)

(* ---------------------------- token scanner ------------------------------ *)
RECURSIVE SkipDigits(_, _)
\* while (i < buffer.length && isDigit(buffer[i])) i++
SkipDigits(buf, i) ==
    IF i < Len(buf) /\ isDigit(CharAt(buf, i)) THEN SkipDigits(buf, i + 1) ELSE i

\* the local stack of isBalancedBracket after one more character; ok turns
\* FALSE where the source returns false
BracketStep(acc, char) ==
    IF char = "{" \/ char = "["
    THEN [acc EXCEPT !.open = Append(@, char)]
    ELSE IF char = "}" \/ char = "]"
    THEN IF Len(acc.open) = 0 THEN [acc EXCEPT !.ok = FALSE]
         ELSE IF (char = "}" /\ acc.open[Len(acc.open)] # "{")
                  \/ (char = "]" /\ acc.open[Len(acc.open)] # "[")
         THEN [acc EXCEPT !.ok = FALSE]
         ELSE [acc EXCEPT !.open = SubSeq(@, 1, Len(@) - 1)]
    ELSE acc

RECURSIVE BracketScan(_, _, _, _)
\* isBalancedBracket: the loop over buffer[i..index], run as two halves to
\* keep the evaluation shallow
BracketScan(buf, i, index, acc) ==
    IF ~acc.ok \/ i > index THEN acc
    ELSE IF i = index THEN BracketStep(acc, CharAt(buf, i))
    ELSE BracketScan(buf, ((i + index) \div 2) + 1, index,
                     BracketScan(buf, i, (i + index) \div 2, acc))

isBalancedBracket(buf, index) ==
    /\ BracketScan(buf, 0, index, [open |-> <<>>, ok |-> TRUE]).ok
    /\ Len(BracketScan(buf, 0, index, [open |-> <<>>, ok |-> TRUE]).open) = 0

isCompleteString(buf, index) ==
    \E i \in (index + 1)..(Len(buf) - 1) :
        CharAt(buf, i) = QUOTE /\ CharAt(buf, i - 1) # BSLASH

isCompleteKeyword(buf, index, keyword) ==
    Slice(buf, index, index + Len(keyword)) = keyword

\* buffer[i] === "." / buffer[i] is "e" or "E", both guarded by i < length
HasDecimal(buf, i) == i < Len(buf) /\ CharAt(buf, i) = "."
HasExponent(buf, i) == i < Len(buf) /\ CharAt(buf, i) \in {"e", "E"}
\* the index after the "e" and its optional sign
ExponentStart(buf, i) == IF CharAt(buf, i + 1) \in {"+", "-"} THEN i + 2 ELSE i + 1

\* the final return of isCompleteNumber, i being where the scan stopped
NumberEnds(buf, index, i) ==
    /\ i > index
    /\ ~isDigit(CharAt(buf, i))
    /\ CharAt(buf, i) \notin {".", "e", "E"}

\* isCompleteNumber from the exponent part on
NumberExponent(buf, index, i) ==
    IF HasExponent(buf, i) /\ ~isDigit(CharAt(buf, ExponentStart(buf, i)))
    THEN FALSE
    ELSE NumberEnds(buf, index,
                    IF HasExponent(buf, i)
                    THEN SkipDigits(buf, ExponentStart(buf, i)) ELSE i)

\* isCompleteNumber from the fractional part on
NumberFraction(buf, index, i) ==
    IF HasDecimal(buf, i) /\ ~isDigit(CharAt(buf, i + 1))
    THEN FALSE
    ELSE NumberExponent(buf, index,
                        IF HasDecimal(buf, i) THEN SkipDigits(buf, i + 1) ELSE i)

isCompleteNumber(buf, index) ==
    NumberFraction(buf, index,
                   SkipDigits(buf, IF CharAt(buf, index) = "-" THEN index + 1 ELSE index))

isCompleteToken(buf, index) ==
    IF index >= Len(buf) THEN FALSE
    ELSE LET char == CharAt(buf, index)
         IN CASE char \in {"{", "["} -> TRUE
              [] char \in {"}", "]"} -> isBalancedBracket(buf, index)
              [] char = QUOTE -> isCompleteString(buf, index)
              [] char = "t" -> isCompleteKeyword(buf, index, TRUE_WORD)
              [] char = "f" -> isCompleteKeyword(buf, index, FALSE_WORD)
              [] char = "n" -> isCompleteKeyword(buf, index, NULL_WORD)
              [] OTHER -> IF isDigit(char) \/ char = "-"
                          THEN isCompleteNumber(buf, index)
                          ELSE TRUE

\* /[tfn0-9-]/.test(char)
isStartOfValue(char) == char \in {"t", "f", "n", "-"} \/ isDigit(char)

\* (\.\d+)? and ([eE][+-]?\d+)? match at p
MatchesFraction(str, p) == CharAt(str, p) = "." /\ isDigit(CharAt(str, p + 1))
MatchesExponent(str, p) ==
    CharAt(str, p) \in {"e", "E"} /\ isDigit(CharAt(str, ExponentStart(str, p)))

\* the match of /^-?\d+(\.\d+)?([eE][+-]?\d+)?/ : len = 0 when there is none
MatchRecord(str, p0, p1, p2, p3) ==
    [len |-> IF p1 = p0 THEN 0 ELSE p3,
     neg |-> p0 = 1, intFrom |-> p0, intTo |-> p1,
     hasFrac |-> p2 > p1, fracTo |-> p2,
     hasExp |-> p3 > p2, expNeg |-> CharAt(str, p2 + 1) = "-",
     expFrom |-> ExponentStart(str, p2), expTo |-> p3]

MatchExponentPart(str, p0, p1, p2) ==
    MatchRecord(str, p0, p1, p2,
                IF MatchesExponent(str, p2)
                THEN SkipDigits(str, ExponentStart(str, p2)) ELSE p2)

MatchFractionPart(str, p0, p1) ==
    MatchExponentPart(str, p0, p1,
                      IF MatchesFraction(str, p1) THEN SkipDigits(str, p1 + 1) ELSE p1)

MatchIntegerPart(str, p0) == MatchFractionPart(str, p0, SkipDigits(str, p0))

NumberMatch(str) == MatchIntegerPart(str, IF CharAt(str, 0) = "-" THEN 1 ELSE 0)

RECURSIVE DigitsToNat(_, _, _, _)
\* the decimal numeral str[from..to) read as a natural number
DigitsToNat(str, from, to, acc) ==
    IF from >= to THEN acc
    ELSE DigitsToNat(str, from + 1, to, 10 * acc + DigitValue(CharAt(str, from)))

\* number of fraction digits, and the digits of the numeral as one integer
FractionLength(nm) == IF nm.hasFrac THEN nm.fracTo - (nm.intTo + 1) ELSE 0
Magnitude(str, nm) ==
    DigitsToNat(str, nm.intFrom, nm.intTo, 0) * Pow10(FractionLength(nm))
        + (IF nm.hasFrac THEN DigitsToNat(str, nm.intTo + 1, nm.fracTo, 0) ELSE 0)
ExponentValue(str, nm) ==
    IF ~nm.hasExp THEN 0
    ELSE IF nm.expNeg THEN 0 - DigitsToNat(str, nm.expFrom, nm.expTo, 0)
    ELSE DigitsToNat(str, nm.expFrom, nm.expTo, 0)

NumberOf(n) == NumV(n.m, n.e)

\* parseFloat of the matched numeral, as an exact decimal m * 10^e
parseFloat(str, nm) ==
    NumberOf(Normalise(IF nm.neg THEN 0 - Magnitude(str, nm) ELSE Magnitude(str, nm),
                       ExponentValue(str, nm) - FractionLength(nm)))

\* parseValue once the keywords are ruled out
NumberOrInvalid(str, nm) ==
    IF nm.len > 0
    THEN [value |-> parseFloat(str, nm), length |-> nm.len]
    ELSE [value |-> NullV, length |-> 1]

parseValue(str) ==
    IF StartsWith(str, TRUE_WORD) THEN [value |-> BoolV(TRUE), length |-> 4]
    ELSE IF StartsWith(str, FALSE_WORD) THEN [value |-> BoolV(FALSE), length |-> 5]
    ELSE IF StartsWith(str, NULL_WORD) THEN [value |-> NullV, length |-> 4]
    ELSE NumberOrInvalid(str, NumberMatch(str))

(* ---------------------------- paths -------------------------------------- *)
LowerCase ==
    {"a", "b", "c", "d", "e", "f", "g", "h", "i", "j", "k", "l", "m",
     "n", "o", "p", "q", "r", "s", "t", "u", "v", "w", "x", "y", "z"}
UpperCase ==
    {"A", "B", "C", "D", "E", "F", "G", "H", "I", "J", "K", "L", "M",
     "N", "O", "P", "Q", "R", "S", "T", "U", "V", "W", "X", "Y", "Z"}

\* /^[a-zA-Z0-9.]+$/.test(path)
isValidPath(path) ==
    /\ Len(path) > 0
    /\ \A j \in 1..Len(path) :
          path[j] \in LowerCase \cup UpperCase \cup {"."} \/ isDigit(path[j])

RECURSIVE SplitFrom(_, _, _)
\* str.split("."): the segments from position j on, seg being read so far
SplitFrom(str, j, seg) ==
    IF j > Len(str) THEN <<seg>>
    ELSE IF str[j] = "." THEN <<seg>> \o SplitFrom(str, j + 1, <<>>)
    ELSE SplitFrom(str, j + 1, Append(seg, str[j]))

split(str) == SplitFrom(str, 1, <<>>)

RECURSIVE TextOf(_)
\* a character sequence as the string an error message shows
TextOf(chars) == IF Len(chars) = 0 THEN "" ELSE Head(chars) \o TextOf(Tail(chars))

\* pathMatches(currentPath, transformPath)
pathMatches(currentPath, transformPath) ==
    /\ Len(currentPath) = Len(split(transformPath))
    /\ \A j \in 1..Len(currentPath) :
          split(transformPath)[j] = <<"*">> \/ split(transformPath)[j] = currentPath[j]

(* ---------------------------- numbers ------------------------------------ *)
\* the smaller of two integers
Least(a, b) == IF a < b THEN a ELSE b

\* value * k and value + k on exact decimals
NumTimes(v, k) == NumberOf(Normalise(v.m * k, v.e))
NumPlus(v, k) ==
    NumberOf(Normalise(v.m * Pow10(v.e - Least(v.e, 0)) + k * Pow10(0 - Least(v.e, 0)),
                       Least(v.e, 0)))

RECURSIVE GCD(_, _)
GCD(a, b) == IF b = 0 THEN a ELSE GCD(b, a % b)

Abs(n) == IF n < 0 THEN 0 - n ELSE n

\* the rational n / d (d > 0) in lowest terms
Rat(n, d) ==
    [n |-> n \div GCD(Abs(n), d), d |-> d \div GCD(Abs(n), d)]

\* a number value as a rational
RatOf(v) == IF v.e >= 0 THEN Rat(v.m * Pow10(v.e), 1) ELSE Rat(v.m, Pow10(0 - v.e))

RatPlus(a, b) == Rat(a.n * b.d + b.n * a.d, a.d * b.d)
RatLess(a, b) == a.n * b.d < b.n * a.d
\* (a * count + b) / (count + 1)
RatAverage(a, count, b) ==
    Rat(a.n * count * b.d + b.n * a.d, a.d * b.d * (count + 1))

(* ---------------------------- caller's functions -------------------------- *)
K_date == <<"d", "a", "t", "e">>

\* transform functions a caller registers:
\*   double    (value) => typeof value === "number" ? value * 2 : value
\*   increment (value) => typeof value === "number" ? value + 1 : value
TransformFunctions == {"double", "increment"}

\* transform(transformedValue, path[path.length - 1], path)
CallTransform(fn, value) ==
    IF value.t # "num" THEN value
    ELSE IF fn = "double" THEN NumTimes(value, 2)
    ELSE NumPlus(value, 1)

\* reviver functions a caller passes:
\*   date    (key, value) => key === "date" ? new Date(value) : value
\*   wrapped (key, value) => value !== null && typeof value === "object"
\*                           && "date" in value ? new Date(value.date) : value
\* "none" stands for options.reviver being undefined.
Revivers == {"none", "date", "wrapped"}

\* value.date of a container cell
DateMember(cell) ==
    cell.items[CHOOSE j \in 1..Len(cell.items) : cell.items[j].k = K_date].v

\* this.options.reviver(key, value), the containers being those of the heap
CallReviver(fn, key, value, heap) ==
    CASE fn = "date" -> IF key = K_date THEN DateV(value) ELSE value
      [] fn = "wrapped" ->
            IF value.t = "ref" /\ heap[value.id].kind = "obj"
                /\ HasKey(heap[value.id], K_date)
            THEN DateV(DateMember(heap[value.id]))
            ELSE value
      [] OTHER -> value

(* ---------------------------- JSON text ---------------------------------- *)
RECURSIVE NatText(_)
\* the decimal numeral of a natural number
NatText(n) ==
    IF n < 10 THEN <<DigitChars[n + 1]>>
    ELSE NatText(n \div 10) \o <<DigitChars[(n % 10) + 1]>>

RECURSIVE Zeros(_)
Zeros(n) == IF n <= 0 THEN <<>> ELSE <<"0">> \o Zeros(n - 1)

\* the JSON numeral of the decimal m * 10^e (plain notation)
NumText(m, e) ==
    LET mag == IF m < 0 THEN 0 - m ELSE m
        sign == IF m < 0 THEN <<"-">> ELSE <<>>
        ds == NatText(mag)
        padded == Zeros((1 - e) - Len(ds)) \o ds
    IN IF e >= 0 THEN sign \o ds \o Zeros(e)
       ELSE sign \o SubSeq(padded, 1, Len(padded) + e) \o <<".">>
                 \o SubSeq(padded, Len(padded) + e + 1, Len(padded))

RECURSIVE EscapeText(_)
EscapeText(s) ==
    IF Len(s) = 0 THEN <<>>
    ELSE (IF Head(s) \in {QUOTE, BSLASH} THEN <<BSLASH, Head(s)>> ELSE <<Head(s)>>)
         \o EscapeText(Tail(s))

StringText(s) == <<QUOTE>> \o EscapeText(s) \o <<QUOTE>>

RECURSIVE Serialise(_, _)
RECURSIVE SerialiseItems(_, _, _, _)
\* the JSON text of a tree; sp is written after every ':' and ','
Serialise(tree, sp) ==
    CASE tree.t = "str" -> StringText(tree.s)
      [] tree.t = "num" -> NumText(tree.m, tree.e)
      [] tree.t = "bool" -> IF tree.m = 1 THEN TRUE_WORD ELSE FALSE_WORD
      [] tree.t = "null" -> NULL_WORD
      [] tree.t = "obj" -> <<"{">> \o SerialiseItems(tree.items, 1, TRUE, sp) \o <<"}">>
      [] tree.t = "arr" -> <<"[">> \o SerialiseItems(tree.items, 1, FALSE, sp) \o <<"]">>

SerialiseItems(items, j, keyed, sp) ==
    IF j > Len(items) THEN <<>>
    ELSE (IF j > 1 THEN <<",">> \o sp ELSE <<>>)
         \o (IF keyed THEN StringText(items[j].k) \o <<":">> \o sp ELSE <<>>)
         \o Serialise(items[j].v, sp)
         \o SerialiseItems(items, j + 1, keyed, sp)

(* ---------------------------- parser state ------------------------------ *)
\* options.maxDepth || Infinity
INFINITY == 1000000

NoKey == [set |-> FALSE, k |-> <<>>]
Key(k) == [set |-> TRUE, k |-> k]
\* selectivePaths = null; a trie is the list of its paths, in insertion order
NoPaths == [set |-> FALSE, paths |-> <<>>]
\* new PathTrie()
NewTrie == [set |-> TRUE, paths |-> <<>>]

NewStatistics ==
    [depth |-> 0, objectCount |-> 0, arrayCount |-> 0, stringCount |-> 0,
     numberCount |-> 0, booleanCount |-> 0, nullCount |-> 0, currentDepth |-> 0]

DataEvent(tree) == [type |-> "data", value |-> tree, msg |-> "", results |-> <<>>]
ErrorEvent(msg) == [type |-> "error", value |-> TUndef, msg |-> msg, results |-> <<>>]
EndEvent == [type |-> "end", value |-> TUndef, msg |-> "", results |-> <<>>]
AggregationEvent(results) ==
    [type |-> "aggregationUpdate", value |-> TUndef, msg |-> "", results |-> results]

\* the parser right after construction with the given maxDepth option and no
\* other option; rootObject = {} is cell 1 of the heap
NewParser(maxDepth) ==
    [buffer |-> <<>>, stack |-> <<>>, currentKey |-> NoKey,
     isInString |-> FALSE, stringBuffer |-> <<>>, isEscaped |-> FALSE,
     isComplete |-> FALSE, rootObject |-> RefV(1), lastCompleteToken |-> 0,
     statistics |-> NewStatistics, currentPath |-> <<>>,
     selectivePaths |-> NoPaths, maxDepth |-> maxDepth,
     heap |-> <<NewObject>>, events |-> <<>>, thrown |-> "",
     outputStream |-> FALSE, output |-> <<>>, outputEnded |-> FALSE,
     transforms |-> <<>>, aggregations |-> <<>>, reviver |-> "none",
     allowComments |-> FALSE]

(* ---------------------------- path trie ----------------------------------- *)
\* PathTrie.hasPath: the walk ends on a node marked isEndOfPath
hasPath(trie, path) == \E j \in 1..Len(trie.paths) : trie.paths[j] = path

\* the walk along the first k segments of path finds a child at every
\* step: some added path starts with them
HasNode(trie, path, k) ==
    \E j \in 1..Len(trie.paths) :
        /\ Len(trie.paths[j]) >= k
        /\ SubSeq(trie.paths[j], 1, k) = SubSeq(path, 1, k)

RECURSIVE PrefixWalk(_, _, _)
\* the loop of hasPrefix at the k-th segment of path
PrefixWalk(trie, path, k) ==
    IF k > Len(path) THEN FALSE
    ELSE IF ~HasNode(trie, path, k) THEN FALSE
    ELSE IF hasPath(trie, SubSeq(path, 1, k)) THEN TRUE
    ELSE PrefixWalk(trie, path, k + 1)

\* PathTrie.hasPrefix
hasPrefix(trie, path) == PrefixWalk(trie, path, 1)

\* PathTrie.addPath
addPath(trie, path) ==
    IF hasPath(trie, path) THEN trie ELSE [trie EXCEPT !.paths = Append(@, path)]

RECURSIVE AddPaths(_, _, _)
\* for (const path of paths) this.selectivePaths.addPath(path.split("."))
AddPaths(trie, paths, j) ==
    IF j > Len(paths) THEN trie
    ELSE AddPaths(addPath(trie, split(paths[j])), paths, j + 1)

\* the paths below the child reached by segment seg, in insertion order
Below(paths, seg) ==
    LET Under(p) == Len(p) > 0 /\ Head(p) = seg
    IN [j \in 1..Len(SelectSeq(paths, Under)) |-> Tail(SelectSeq(paths, Under)[j])]

\* the child for paths[j] is new at j: no earlier path starts with its segment
FirstOfChild(paths, j) ==
    /\ Len(paths[j]) > 0
    /\ \A i \in 1..(j - 1) : Len(paths[i]) = 0 \/ Head(paths[i]) # Head(paths[j])

Prefixed(seg, paths) == [j \in 1..Len(paths) |-> <<seg>> \o paths[j]]

RECURSIVE AllPathsHelper(_)
RECURSIVE ChildPaths(_, _)
\* getAllPathsHelper: this node if it ends a path, then the children in order
AllPathsHelper(paths) ==
    (IF \E j \in 1..Len(paths) : Len(paths[j]) = 0 THEN << <<>> >> ELSE <<>>)
        \o ChildPaths(paths, 1)

ChildPaths(paths, j) ==
    IF j > Len(paths) THEN <<>>
    ELSE (IF FirstOfChild(paths, j)
          THEN Prefixed(Head(paths[j]), AllPathsHelper(Below(paths, Head(paths[j]))))
          ELSE <<>>)
         \o ChildPaths(paths, j + 1)

getAllPaths(trie) == AllPathsHelper(trie.paths)

shouldParseCurrentPath(st) ==
    IF ~st.selectivePaths.set THEN TRUE
    ELSE hasPath(st.selectivePaths, st.currentPath)

(* ---------------------------- projection ---------------------------------- *)
\* the outcome of an expression that throws
TThrown == Tree("thrown", <<>>, 0, 0, <<>>)

\* object[key] of a tree, for a key that is neither an index nor the name of
\* a built-in property: undefined unless object is a plain object holding key
TreeGet(tree, key) ==
    IF tree.t = "obj" /\ HasKey(tree, key)
    THEN tree.items[CHOOSE j \in 1..Len(tree.items) : tree.items[j].k = key].v
    ELSE TUndef

\* the truthiness of a value
Truthy(tree) ==
    CASE tree.t \in {"undef", "null"} -> FALSE
      [] tree.t = "bool" -> tree.m = 1
      [] tree.t = "num" -> tree.m # 0
      [] tree.t = "str" -> Len(tree.s) > 0
      [] OTHER -> TRUE

\* partial[key] = current[key] at the last segment: reading a property of
\* null or undefined throws, and so does setting one on a primitive
AssignLast(partial, key, current) ==
    IF current.t \in {"null", "undef"} THEN TThrown
    ELSE IF partial.t = "obj" THEN SetKey(partial, key, TreeGet(current, key))
    ELSE IF partial.t \in {"arr", "date"} THEN partial
    ELSE TThrown

\* partial[key] || (Array.isArray(current) ? [] : {}), next being current[key]
SubPartial(partial, key, next) ==
    IF Truthy(TreeGet(partial, key)) THEN TreeGet(partial, key)
    ELSE IF next.t = "arr" THEN TArr(<<>>) ELSE TObj(<<>>)

\* partial[key] once the rest of the path was walked below it
PutSub(partial, key, sub) ==
    IF sub.t = "thrown" THEN sub ELSE SetKey(partial, key, sub)

RECURSIVE ProjectPath(_, _, _, _)
\* the inner loop of createPartialObject from segment i on: what partial has
\* become.  No registered path holds "*" (setSelectivePaths rejects it), so
\* the wildcard branch is never taken.
ProjectPath(path, i, current, partial) ==
    IF i = Len(path) THEN AssignLast(partial, path[i], current)
    ELSE IF current.t \notin {"obj", "arr", "date"} THEN TThrown
    ELSE IF ~(current.t = "obj" /\ HasKey(current, path[i])) THEN partial
    ELSE IF partial.t # "obj" THEN TThrown
    ELSE PutSub(partial, path[i],
                ProjectPath(path, i + 1, TreeGet(current, path[i]),
                            SubPartial(partial, path[i], TreeGet(current, path[i]))))

RECURSIVE ProjectPaths(_, _, _, _)
\* for (const path of this.selectivePaths.getAllPaths()) ...
ProjectPaths(paths, j, fullObject, partialObject) ==
    IF j > Len(paths) \/ partialObject.t = "thrown" THEN partialObject
    ELSE ProjectPaths(paths, j + 1, fullObject,
                      ProjectPath(paths[j], 1, fullObject, partialObject))

RECURSIVE createPartialObject(_, _)
\* createPartialObject with selectivePaths set, paths being getAllPaths()
createPartialObject(paths, fullObject) ==
    IF fullObject.t = "arr"
    THEN IF \E j \in 1..Len(fullObject.items) :
                createPartialObject(paths, fullObject.items[j].v).t = "thrown"
         THEN TThrown
         ELSE TArr([j \in 1..Len(fullObject.items) |->
                        Elem(createPartialObject(paths, fullObject.items[j].v))])
    ELSE IF fullObject.t \in {"obj", "date"}
    THEN ProjectPaths(paths, 1, fullObject, TObj(<<>>))
    ELSE fullObject

\* super.emit of a data event carrying the projected value
EmitPartial(st, partialData) ==
    IF partialData.t = "thrown"
    THEN [st EXCEPT !.thrown = "TypeError: invalid operand in createPartialObject"]
    ELSE [st EXCEPT !.events = Append(@, DataEvent(partialData))]

emit(st, event) ==
    IF event.type = "data" /\ st.selectivePaths.set
        /\ event.value.t \in {"obj", "arr", "date"}
    THEN EmitPartial(st, createPartialObject(getAllPaths(st.selectivePaths),
                                             event.value))
    ELSE [st EXCEPT !.events = Append(@, event)]

(* ---------------------------- output stream ------------------------------- *)
\* Date.prototype.toISOString for a date built from "YYYY-MM-DDTHH:MM:SSZ";
\* any other payload is taken for an invalid date, which stringifies to null
toISOString(s) ==
    IF Len(s) = 20 /\ s[20] = "Z"
    THEN SubSeq(s, 1, 19) \o <<".", "0", "0", "0", "Z">>
    ELSE <<>>

RECURSIVE Reparsed(_)
\* JSON.parse(JSON.stringify(tree)): dates become strings (null when invalid),
\* undefined members are dropped and undefined elements become null
Reparsed(tree) ==
    CASE tree.t = "date" ->
            IF Len(toISOString(tree.s)) > 0 THEN TStr(toISOString(tree.s)) ELSE TNull
      [] tree.t = "obj" ->
            LET Kept(item) == item.v.t # "undef"
            IN TObj([j \in 1..Len(SelectSeq(tree.items, Kept)) |->
                        Member(SelectSeq(tree.items, Kept)[j].k,
                               Reparsed(SelectSeq(tree.items, Kept)[j].v))])
      [] tree.t = "arr" ->
            TArr([j \in 1..Len(tree.items) |->
                    Elem(IF tree.items[j].v.t = "undef" THEN TNull
                         ELSE Reparsed(tree.items[j].v))])
      [] OTHER -> tree

\* JSON.stringify(value) of a defined value
Stringify(tree) == Serialise(Reparsed(tree), <<>>)

\* the write of the selectivePaths branch: JSON.parse(data) throws on the
\* fragments ("{", ",", a key with its value, ...), parsed being TThrown then
WriteParsed(st, parsed) ==
    IF parsed.t = "thrown"
    THEN [st EXCEPT !.thrown = "SyntaxError: JSON.parse of a fragment"]
    ELSE IF createPartialObject(getAllPaths(st.selectivePaths), parsed).t = "thrown"
    THEN [st EXCEPT !.thrown = "TypeError: invalid operand in createPartialObject"]
    ELSE [st EXCEPT !.output =
            Append(@, Stringify(createPartialObject(getAllPaths(st.selectivePaths),
                                                    parsed)))]

\* writeToStream(data); parsed is what JSON.parse(data) yields.  A statement
\* after a throw is not executed: st is returned as it is.
writeToStream(st, data, parsed) ==
    IF st.thrown # "" \/ ~st.outputStream THEN st
    ELSE IF st.selectivePaths.set THEN WriteParsed(st, parsed)
    ELSE [st EXCEPT !.output = Append(@, data)]

(* ---------------------------- transforms ---------------------------------- *)
RECURSIVE ApplyFrom(_, _, _, _)
\* the loop of applyTransforms from the j-th registered transform on
ApplyFrom(transforms, j, value, path) ==
    IF j > Len(transforms) THEN value
    ELSE ApplyFrom(transforms, j + 1,
                   IF pathMatches(path, transforms[j].path)
                   THEN CallTransform(transforms[j].transform, value)
                   ELSE value,
                   path)

applyTransforms(transforms, value, path) == ApplyFrom(transforms, 1, value, path)

addTransform(st, path, transform) ==
    [st EXCEPT !.transforms = Append(@, [path |-> path, transform |-> transform])]

(* ---------------------------- aggregations -------------------------------- *)
AggregationTypes == {"count", "sum", "average", "min", "max"}

\* { path, type, value: 0 }; count is undefined until the first average
\* update sets it to 0, which reads the same as starting at 0
NewAggregation(path, type) ==
    [path |-> path, type |-> type, value |-> Rat(0, 1), count |-> 0]

\* this.aggregations.set(path, ...): a Map keeps the position of a known key
addAggregation(st, path, type) ==
    IF \E j \in 1..Len(st.aggregations) : st.aggregations[j].path = path
    THEN [st EXCEPT !.aggregations =
            [j \in 1..Len(@) |->
                IF @[j].path = path THEN NewAggregation(path, type) ELSE @[j]]]
    ELSE [st EXCEPT !.aggregations = Append(@, NewAggregation(path, type))]

updateAggregation(aggregation, value) ==
    IF value.t # "num" THEN aggregation
    ELSE CASE aggregation.type = "count" ->
                [aggregation EXCEPT !.value = RatPlus(@, Rat(1, 1))]
           [] aggregation.type = "sum" ->
                [aggregation EXCEPT !.value = RatPlus(@, RatOf(value))]
           [] aggregation.type = "average" ->
                [aggregation EXCEPT
                    !.value = RatAverage(@, aggregation.count, RatOf(value)),
                    !.count = @ + 1]
           [] aggregation.type = "min" ->
                [aggregation EXCEPT
                    !.value = IF RatLess(RatOf(value), @) THEN RatOf(value) ELSE @]
           [] aggregation.type = "max" ->
                [aggregation EXCEPT
                    !.value = IF RatLess(@, RatOf(value)) THEN RatOf(value) ELSE @]
           [] OTHER -> aggregation

\* getAggregationResults(): the value of every aggregation, by path
getAggregationResults(aggregations) ==
    [j \in 1..Len(aggregations) |->
        [path |-> aggregations[j].path, value |-> aggregations[j].value]]

emitAggregationUpdate(st) ==
    emit(st, AggregationEvent(getAggregationResults(st.aggregations)))

updateAggregations(st, path, value) ==
    emitAggregationUpdate(
        [st EXCEPT !.aggregations =
            [j \in 1..Len(@) |->
                IF pathMatches(path, @[j].path)
                THEN updateAggregation(@[j], value)
                ELSE @[j]]])

(* ---------------------------- value builder ------------------------------- *)
incrementDepth(stats) ==
    LET d == stats.currentDepth + 1
    IN [stats EXCEPT !.currentDepth = d,
                     !.depth = IF d > stats.depth THEN d ELSE stats.depth]

\* a decrement that also lowers the maximum depth reached
decrementBoth(stats) == [stats EXCEPT !.currentDepth = @ - 1, !.depth = @ - 1]

decrementDepth(stats) == [stats EXCEPT !.currentDepth = @ - 1]

\* the typeof chain of addValue
CountValue(stats, value) ==
    CASE value.t = "str" -> [stats EXCEPT !.stringCount = @ + 1]
      [] value.t = "num" -> [stats EXCEPT !.numberCount = @ + 1]
      [] value.t = "bool" -> [stats EXCEPT !.booleanCount = @ + 1]
      [] value.t = "null" -> [stats EXCEPT !.nullCount = @ + 1]
      [] OTHER -> stats

\* rootObject[currentKey] = value when no container is open.  A plain object
\* takes the key; an array or a Date takes it as a property no reader of its
\* value sees; a primitive, null or undefined root makes the assignment throw
\* (strict-mode module code).
StoreInRoot(st, value) ==
    IF st.rootObject.t \notin {"ref", "date"}
    THEN [st EXCEPT !.thrown = "TypeError: cannot set property of root"]
    ELSE IF st.rootObject.t = "date"
    THEN [st EXCEPT !.currentKey = NoKey, !.isComplete = TRUE]
    ELSE [st EXCEPT !.heap[st.rootObject.id] =
                        IF @.kind = "obj" THEN SetKey(@, st.currentKey.k, value) ELSE @,
                    !.currentKey = NoKey,
                    !.isComplete = TRUE]

\* addValue with an empty stack: store under the pending key or promote to root
StoreAtTop(st, value) ==
    IF st.currentKey.set
    THEN StoreInRoot(st, value)
    ELSE [st EXCEPT !.rootObject = value, !.isComplete = TRUE]

\* if (<current is not empty>) this.writeToStream(",")
WriteComma(st, id) ==
    IF Len(st.heap[id].items) > 0 THEN writeToStream(st, <<",">>, TThrown) ELSE st

\* current.push(value)
PushValue(st, value, id) ==
    IF st.thrown # "" THEN st ELSE [st EXCEPT !.heap[id] = PushElem(@, value)]

\* current[this.currentKey] = value; this.currentKey = null
PutValue(st, value, id) ==
    IF st.thrown # "" THEN st
    ELSE [st EXCEPT !.heap[id] = SetKey(@, st.currentKey.k, value),
                    !.currentKey = NoKey]

\* addValue with an open container, id being the top of the stack
StoreInContainer(st, value, id) ==
    IF st.heap[id].kind = "arr"
    THEN PushValue(writeToStream(WriteComma(st, id),
                                 Stringify(Resolve(st.heap, value)),
                                 Reparsed(Resolve(st.heap, value))),
                   value, id)
    ELSE IF st.currentKey.set
    THEN PutValue(writeToStream(WriteComma(st, id),
                                StringText(st.currentKey.k) \o <<":">>
                                    \o Stringify(Resolve(st.heap, value)),
                                TThrown),
                  value, id)
    ELSE IF value.t = "str"
    THEN [st EXCEPT !.currentKey = Key(value.s)]
    ELSE st

\* addValue after the statistics update
StoreValue(st, value) ==
    IF Len(st.stack) = 0
    THEN StoreAtTop(st, value)
    ELSE StoreInContainer(st, value, st.stack[Len(st.stack)])

\* this.options.reviver(this.currentKey || "", value) when a reviver is given
Revive(st, value) ==
    IF st.reviver = "none" THEN value
    ELSE CallReviver(st.reviver, IF st.currentKey.set THEN st.currentKey.k ELSE <<>>,
                     value, st.heap)

\* addValue from updateAggregations on, value being the transformed value
AddTransformed(st, value) ==
    StoreValue([updateAggregations(st, st.currentPath, value)
                    EXCEPT !.statistics = CountValue(@, value)],
               Revive(st, value))

addValue(st, value) ==
    IF ~shouldParseCurrentPath(st) THEN st
    ELSE AddTransformed(st, applyTransforms(st.transforms, value, st.currentPath))

\* checkDepth: TRUE when it throws
checkDepth(st) == st.statistics.currentDepth >= st.maxDepth

DepthMessage(maxDepth) ==
    "Maximum depth of " \o ToString(maxDepth) \o " exceeded"

\* this.stack.push(container); this.statistics.incrementDepth()
PushContainer(st, id) ==
    IF st.thrown # "" THEN st
    ELSE [st EXCEPT !.stack = Append(@, id), !.statistics = incrementDepth(@)]

\* startObject / startArray after the opening bracket was written: allocate,
\* addValue, push
OpenContainer(st, cell) ==
    IF st.thrown # "" THEN st
    ELSE PushContainer(addValue([st EXCEPT !.heap = Append(@, cell)],
                                RefV(Len(st.heap) + 1)),
                       Len(st.heap) + 1)

\* incrementObject and currentPath.push(currentKey || "")
EnterObject(st) ==
    IF st.thrown # "" THEN st
    ELSE [st EXCEPT !.statistics.objectCount = @ + 1,
                    !.currentPath =
                        Append(@, IF st.currentKey.set THEN st.currentKey.k ELSE <<>>)]

startObject(st) ==
    IF ~shouldParseCurrentPath(st) THEN st
    ELSE IF checkDepth(st) THEN [st EXCEPT !.thrown = DepthMessage(st.maxDepth)]
    ELSE EnterObject(OpenContainer(writeToStream(st, <<"{">>, TThrown), NewObject))

\* incrementArray
EnterArray(st) ==
    IF st.thrown # "" THEN st
    ELSE [st EXCEPT !.statistics.arrayCount = @ + 1]

startArray(st) ==
    IF checkDepth(st) THEN [st EXCEPT !.thrown = DepthMessage(st.maxDepth)]
    ELSE EnterArray(OpenContainer(writeToStream(st, <<"[">>, TThrown), NewArray))

\* this.stack.pop(): the popped value and what is left
PopStack(stk) ==
    IF Len(stk) = 0 THEN [value |-> UndefV, rest |-> <<>>]
    ELSE [value |-> RefV(stk[Len(stk)]), rest |-> SubSeq(stk, 1, Len(stk) - 1)]

\* completedContainer instanceof Array ? "]" : "}"
Closer(heap, completedContainer) ==
    IF completedContainer.t = "ref" /\ heap[completedContainer.id].kind = "arr"
    THEN <<"]">> ELSE <<"}">>

\* this.statistics.decrementDepth(); this.currentPath.pop()
LeaveContainer(st) ==
    IF st.thrown # "" THEN st
    ELSE [st EXCEPT !.statistics = decrementDepth(@),
                    !.currentPath = IF Len(@) = 0 THEN <<>> ELSE SubSeq(@, 1, Len(@) - 1)]

\* endContainer after the pop
CloseContainer(st, popped) ==
    LeaveContainer(
        writeToStream([st EXCEPT !.stack = popped.rest,
                                 !.isComplete = IF Len(popped.rest) = 0 THEN TRUE ELSE @,
                                 !.rootObject = IF Len(popped.rest) = 0 THEN popped.value ELSE @],
                      Closer(st.heap, popped.value), TThrown))

endContainer(st) ==
    IF ~shouldParseCurrentPath(st) THEN st
    ELSE CloseContainer(st, PopStack(st.stack))

\* setSelectivePaths: the first path the pattern rejects is the one reported
setSelectivePaths(st, paths) ==
    IF \E j \in 1..Len(paths) : ~isValidPath(paths[j])
    THEN [st EXCEPT !.thrown =
            "Invalid path: " \o
            TextOf(paths[CHOOSE j \in 1..Len(paths) :
                            /\ ~isValidPath(paths[j])
                            /\ \A i \in 1..(j - 1) : isValidPath(paths[i])])]
    ELSE [st EXCEPT !.selectivePaths = AddPaths(NewTrie, paths, 1)]

\* a reset that clears the current path and keeps the filter
resetKeepingFilter(st) == [st EXCEPT !.currentPath = <<>>]

resetSelectivePaths(st) ==
    [st EXCEPT !.selectivePaths = NoPaths, !.currentPath = <<>>]

(* ---------------------------- parseBuffer -------------------------------- *)
\* this.stringBuffer = "" after addValue returned
ClearStringBuffer(st) ==
    IF st.thrown # "" THEN st ELSE [st EXCEPT !.stringBuffer = <<>>]

\* this.isEscaped = char === "\\" && !this.isEscaped
SetEscaped(st, escaped) ==
    IF st.thrown # "" THEN st ELSE [st EXCEPT !.isEscaped = escaped]

\* the isInString branch of the loop body
ScanInString(st, char) ==
    SetEscaped(IF char = QUOTE /\ ~st.isEscaped
               THEN ClearStringBuffer(addValue([st EXCEPT !.isInString = FALSE],
                                               StrV(st.stringBuffer)))
               ELSE [st EXCEPT !.stringBuffer = Append(@, char)],
               char = BSLASH /\ ~st.isEscaped)

\* addValue(value.value); i += value.length - 1
AddParsed(st, i, parsed) ==
    [st |-> addValue(st, parsed.value), i |-> i + parsed.length - 1]

\* the switch of the loop body: the state afterwards and the value of i
ScanOutside(st, i, char) ==
    CASE char = "{" -> [st |-> startObject(st), i |-> i]
      [] char = "[" -> [st |-> startArray(st), i |-> i]
      [] char \in {"}", "]"} -> [st |-> endContainer(st), i |-> i]
      [] char = ":" -> [st |-> st, i |-> i]
      [] char = "," -> [st |-> [st EXCEPT !.currentKey = NoKey], i |-> i]
      [] char = QUOTE -> [st |-> [st EXCEPT !.isInString = TRUE], i |-> i]
      [] char \in {" ", "\n", "\r", "\t"} -> [st |-> st, i |-> i]
      [] OTHER -> IF isStartOfValue(char)
                  THEN AddParsed(st, i, parseValue(SliceFrom(st.buffer, i)))
                  ELSE [st |-> st, i |-> i]

\* one iteration of the for loop body up to the isCompleteToken test
ScanChar(st, i) ==
    IF st.isInString
    THEN [st |-> ScanInString(st, CharAt(st.buffer, i)), i |-> i]
    ELSE ScanOutside(st, i, CharAt(st.buffer, i))

\* if (this.isCompleteToken(i)) this.lastCompleteToken = i + 1
MarkComplete(st, i) ==
    IF isCompleteToken(st.buffer, i)
    THEN [st EXCEPT !.lastCompleteToken = i + 1]
    ELSE st

\* the rest of an iteration, r being the outcome of its loop body: the
\* isCompleteToken test and i++, unless the body threw
ScanNext(r) ==
    IF r.st.thrown # "" THEN r
    ELSE [st |-> MarkComplete(r.st, r.i), i |-> r.i + 1]

\* the loop is over: the body threw or i reached buffer.length
ScanOver(r) == r.st.thrown # "" \/ r.i >= Len(r.st.buffer)

RECURSIVE ScanSteps(_, _)
\* the next n iterations, if there are as many, run as two halves to keep
\* the evaluation shallow
ScanSteps(r, n) ==
    IF ScanOver(r) THEN r
    ELSE IF n <= 1 THEN ScanNext(ScanChar(r.st, r.i))
    ELSE ScanSteps(ScanSteps(r, n \div 2), n - (n \div 2))

\* for (i = 0; i < buffer.length; i++) { ...; if (isCompleteToken(i)) ... }
\* the loop runs at most buffer.length iterations
ScanLoop(st, i) == ScanSteps([st |-> st, i |-> i], Len(st.buffer)).st

\* isComplete = false; rootObject = {} once emit("data") returned
ResetRoot(st) ==
    IF st.thrown # "" THEN st
    ELSE [st EXCEPT !.isComplete = FALSE,
                    !.rootObject = RefV(Len(st.heap) + 1),
                    !.heap = Append(@, NewObject)]

\* if (this.isComplete) { emit("data", rootObject); ... }
EmitRoot(st) ==
    IF ~st.isComplete THEN st
    ELSE ResetRoot(emit(st, DataEvent(Resolve(st.heap, st.rootObject))))

\* the statements after the loop: trim the buffer, emit the root and reset it
FinishScan(st) ==
    IF st.thrown # "" THEN st
    ELSE EmitRoot([st EXCEPT !.buffer = SliceFrom(@, st.lastCompleteToken),
                             !.lastCompleteToken = 0])

\* catch (error) { this.emit("error", error) }
Caught(st) ==
    IF st.thrown # ""
    THEN [emit(st, ErrorEvent(st.thrown)) EXCEPT !.thrown = ""]
    ELSE st

parseBuffer(st) == Caught(FinishScan(ScanLoop(st, 0)))

(* ---------------------------- comments ------------------------------------ *)
\* line terminators, which "." of a regular expression does not match
LineTerminators == {"\n", "\r"}

\* the least of a non-empty set of positions
FirstOf(positions) == CHOOSE j \in positions : \A k \in positions : j <= k

\* /\/\/.*/ matched at position i: the position after the match, 0 for no match
LineComment(input, i) ==
    IF i + 1 <= Len(input) /\ input[i] = "/" /\ input[i + 1] = "/"
    THEN FirstOf({j \in (i + 2)..(Len(input) + 1) :
                    j = Len(input) + 1 \/ input[j] \in LineTerminators})
    ELSE 0

\* /\/\*[\s\S]*?\*\// matched at position i: the position after the match,
\* 0 for no match
BlockComment(input, i) ==
    IF /\ i + 1 <= Len(input) /\ input[i] = "/" /\ input[i + 1] = "*"
       /\ \E j \in (i + 2)..(Len(input) - 1) : input[j] = "*" /\ input[j + 1] = "/"
    THEN 2 + FirstOf({j \in (i + 2)..(Len(input) - 1) :
                        input[j] = "*" /\ input[j + 1] = "/"})
    ELSE 0

\* one step of the global replace: r.at is the position the next match is
\* looked for at, r.out the text kept so far
ReplaceStep(input, r) ==
    IF r.at > Len(input) THEN r
    ELSE IF LineComment(input, r.at) # 0
         THEN [r EXCEPT !.at = LineComment(input, r.at)]
    ELSE IF BlockComment(input, r.at) # 0
         THEN [r EXCEPT !.at = BlockComment(input, r.at)]
    ELSE [at |-> r.at + 1, out |-> Append(r.out, input[r.at])]

RECURSIVE ReplaceSteps(_, _, _)
\* n steps of the replace from r
ReplaceSteps(input, r, n) ==
    IF r.at > Len(input) \/ n = 0 THEN r
    ELSE IF n = 1 THEN ReplaceStep(input, r)
    ELSE ReplaceSteps(input, ReplaceSteps(input, r, n \div 2), n - (n \div 2))

\* a replace that matches nothing
keepComments(input) == input

\* input.replace(/\/\/.*|\/\*[\s\S]*?\*\//g, "")
removeComments(input) ==
    ReplaceSteps(input, [at |-> 1, out |-> <<>>], Len(input)).out

\* process(chunk) of a parser without adaptive sizing
Appended(st, chunk) ==
    [st EXCEPT !.buffer =
        @ \o (IF st.allowComments THEN removeComments(chunk) ELSE chunk)]

process(st, chunk) == parseBuffer(Appended(st, chunk))

\* one test of the sub-chunk loop of process and, when it passes, its body:
\* run holds the parser, the loop index i and the sub-chunks appended so far
SubChunkStep(run, chunk, chunkSize) ==
    IF run.i >= Len(chunk) THEN run
    ELSE [st |-> parseBuffer([run.st EXCEPT !.buffer =
                                 @ \o Slice(chunk, run.i, run.i + chunkSize)]),
          i |-> run.i + chunkSize,
          slices |-> Append(run.slices, Slice(chunk, run.i, run.i + chunkSize))]

RECURSIVE SubChunkSteps(_, _, _, _)
\* n tests of the loop
SubChunkSteps(run, chunk, chunkSize, n) ==
    IF run.i >= Len(chunk) \/ n = 0 THEN run
    ELSE IF n = 1 THEN SubChunkStep(run, chunk, chunkSize)
    ELSE SubChunkSteps(SubChunkSteps(run, chunk, chunkSize, n \div 2),
                       chunk, chunkSize, n - n \div 2)

\* for (let i = 0; i < chunk.length; i += chunkSize) { ... } followed for
\* chunk.length iterations: the loop has returned when i has reached
\* chunk.length by then, and otherwise runs on
SubChunkLoop(st, chunk, chunkSize) ==
    SubChunkSteps([st |-> st, i |-> 0, slices |-> <<>>], chunk, chunkSize,
                  Len(chunk))

\* calculateComplexity(), in thousandths
calculateComplexity(st) ==
    Least(2 * st.statistics.depth + 3 * st.statistics.objectCount
          + 3 * st.statistics.arrayCount
          + 2 * (st.statistics.objectCount + st.statistics.arrayCount
                 + st.statistics.stringCount + st.statistics.numberCount
                 + st.statistics.booleanCount + st.statistics.nullCount),
          1000)

\* the sample updateChunkSizeMetrics() hands to the sizer
ChunkMetrics(st, processingTime) ==
    [processingTime |-> processingTime, complexity |-> calculateComplexity(st),
     size |-> Len(st.buffer)]

\* Object.keys(rootObject).length > 0, for the roots Object.keys accepts
RootHasKeys(st) ==
    CASE st.rootObject.t = "ref" -> Len(st.heap[st.rootObject.id].items) > 0
      [] st.rootObject.t = "str" -> Len(st.rootObject.s) > 0
      [] OTHER -> FALSE

\* this.emit("end") unless the data emit threw
EmitEnd(st) == IF st.thrown # "" THEN st ELSE emit(st, EndEvent)

\* end() after the output stream was ended: Object.keys throws on an
\* undefined or null root, before any emit
EndParser(st) ==
    IF st.rootObject.t \in {"undef", "null"}
    THEN [st EXCEPT !.thrown = "TypeError: Cannot convert undefined or null to object"]
    ELSE EmitEnd(IF RootHasKeys(st)
                 THEN emit(st, DataEvent(Resolve(st.heap, st.rootObject)))
                 ELSE st)

end(st) == EndParser([st EXCEPT !.outputEnded = st.outputStream])

(* ---------------------------- construction -------------------------------- *)
\* the options a parser is constructed with, defaults filled in
Options(maxDepth, outputStream, reviver, transforms, aggregations) ==
    [maxDepth |-> maxDepth, outputStream |-> outputStream, reviver |-> reviver,
     transforms |-> transforms, aggregations |-> aggregations,
     allowComments |-> FALSE]

\* { ...options, allowComments: true }
WithComments(options) == [options EXCEPT !.allowComments = TRUE]

RECURSIVE AddAggregations(_, _, _)
\* for (const [path, type] of Object.entries(this.options.aggregations))
AddAggregations(st, entries, j) ==
    IF j > Len(entries) THEN st
    ELSE AddAggregations(addAggregation(st, entries[j].path, entries[j].type),
                         entries, j + 1)

\* new StreamingJsonParser(options)
Construct(options) ==
    AddAggregations([NewParser(options.maxDepth) EXCEPT
                        !.outputStream = options.outputStream,
                        !.reviver = options.reviver,
                        !.allowComments = options.allowComments,
                        !.transforms = options.transforms],
                    options.aggregations, 1)

(* ---------------------------- adaptive chunk sizing ----------------------- *)
\* a * (n / d), the larger and the smaller of two rationals
RatTimes(a, n, d) == Rat(a.n * n, a.d * d)
RatMax(a, b) == IF RatLess(a, b) THEN b ELSE a
RatMin(a, b) == IF RatLess(b, a) THEN b ELSE a

\* Math.round of a rational: the nearest integer, halves going up
Round(a) == (2 * a.n + a.d) \div (2 * a.d)

\* a ChunkSizeMetrics sample; complexity is kept in thousandths (0 .. 1000
\* for 0 .. 1)
Metrics(processingTime, thousandths) ==
    [processingTime |-> processingTime, complexity |-> thousandths, size |-> 0]

\* new AdaptiveChunkSizer(options)
NewSizer(sizing) ==
    [chunkSize |-> Rat(sizing.initialChunkSize, 1),
     minChunkSize |-> sizing.minChunkSize,
     maxChunkSize |-> sizing.maxChunkSize,
     targetProcessingTime |-> sizing.targetProcessingTime,
     metrics |-> <<>>]

RECURSIVE SumTime(_)
\* this.metrics.reduce((sum, m) => sum + m.processingTime, 0)
SumTime(metrics) ==
    IF Len(metrics) = 0 THEN 0
    ELSE Head(metrics).processingTime + SumTime(Tail(metrics))

RECURSIVE SumComplexity(_)
\* this.metrics.reduce((sum, m) => sum + m.complexity, 0), in thousandths
SumComplexity(metrics) ==
    IF Len(metrics) = 0 THEN 0
    ELSE Head(metrics).complexity + SumComplexity(Tail(metrics))

\* avgProcessingTime > targetProcessingTime * 1.2, and < targetProcessingTime * 0.8
TooSlow(sz) ==
    10 * SumTime(sz.metrics) > 12 * sz.targetProcessingTime * Len(sz.metrics)
TooFast(sz) ==
    10 * SumTime(sz.metrics) < 8 * sz.targetProcessingTime * Len(sz.metrics)

\* avgComplexity > 0.7, and < 0.3
Complex(sz) == SumComplexity(sz.metrics) > 700 * Len(sz.metrics)
Simple(sz) == SumComplexity(sz.metrics) < 300 * Len(sz.metrics)

\* the adjustment on processing time
AdjustForTime(sz) ==
    IF TooSlow(sz)
    THEN [sz EXCEPT !.chunkSize =
            RatMax(Rat(sz.minChunkSize, 1), RatTimes(@, 8, 10))]
    ELSE IF TooFast(sz)
    THEN [sz EXCEPT !.chunkSize =
            RatMin(Rat(sz.maxChunkSize, 1), RatTimes(@, 12, 10))]
    ELSE sz

\* the further adjustment on complexity
AdjustForComplexity(sz) ==
    IF Complex(sz)
    THEN [sz EXCEPT !.chunkSize =
            RatMax(Rat(sz.minChunkSize, 1), RatTimes(@, 9, 10))]
    ELSE IF Simple(sz)
    THEN [sz EXCEPT !.chunkSize =
            RatMin(Rat(sz.maxChunkSize, 1), RatTimes(@, 11, 10))]
    ELSE sz

adjustChunkSize(sz) ==
    IF Len(sz.metrics) < 5 THEN sz
    ELSE AdjustForComplexity(AdjustForTime(sz))

\* the window after push and, past 10 samples, shift
Pushed(metrics, m) ==
    IF Len(metrics) + 1 > 10 THEN Tail(Append(metrics, m)) ELSE Append(metrics, m)

addMetrics(sz, m) == adjustChunkSize([sz EXCEPT !.metrics = Pushed(@, m)])

getChunkSize(sz) == Round(sz.chunkSize)

\* the sub-chunks of the last process call of a parser with a sizer, and
\* whether its loop has returned; none before the first such call
NoSubChunks == [slices |-> <<>>, returned |-> TRUE]

\* a parser constructed without adaptiveChunkSizing has no sizer
NoSizer == "undefined"

\* the adaptiveChunkSizing options a sizer is constructed with: the initial
\* size inside the limits, at a limit, and outside them
SizerOptions ==
    { [initialChunkSize |-> i, minChunkSize |-> 10, maxChunkSize |-> 12,
       targetProcessingTime |-> 50] : i \in {0, 5, 10, 11} }

\* the samples addMetrics is called with: slow on simple input, fast on
\* complex input, and on target
SizerSamples == { Metrics(100, 0), Metrics(0, 1000), Metrics(50, 500) }

\* Date.now() - this.chunkStartTime, as process may measure it
ProcessingTimes == {0, 100}

(* ---------------------------- input documents ---------------------------- *)
RECURSIVE SerialiseAll(_, _, _)
\* a stream of top-level values, sep between consecutive values
SerialiseAll(values, sp, sep) ==
    IF Len(values) = 0 THEN <<>>
    ELSE Serialise(Head(values), sp)
         \o (IF Len(values) > 1 THEN sep ELSE <<>>)
         \o SerialiseAll(Tail(values), sp, sep)

SP == <<" ">>
K_a == <<"a">>
K_b == <<"b">>
K_c == <<"c">>
K_name == <<"n", "a", "m", "e">>
K_age == <<"a", "g", "e">>
S_John == <<"J", "o", "h", "n">>

T_a1 == TObj(<<Member(K_a, TNum(1, 0))>>)
T_nums == TArr(<<Elem(TNum(12, 0)), Elem(TNum(-15, -1))>>)
T_words == TArr(<<Elem(TBool(TRUE)), Elem(TNull), Elem(TBool(FALSE))>>)
T_deep ==
    TObj(<<Member(K_a, TObj(<<Member(K_b, TObj(<<Member(K_c, TNum(1, 0))>>))>>))>>)
T_john == TObj(<<Member(K_name, TStr(S_John)), Member(K_age, TNum(3, 1))>>)
T_empty == TObj(<<>>)

\* A well-formed stream: its top-level values (what the standard parse of
\* each document yields) and its text.
WellFormed(values, sp, sep) ==
    [values |-> values, text |-> SerialiseAll(values, sp, sep), kind |-> "wellFormed"]

\* Text that is not a sequence of JSON documents, and what is wrong with it.
Malformed(text, kind) == [values |-> <<>>, text |-> text, kind |-> kind]

\* a document a test hands to a single process call
Whole(tree, text) == [values |-> <<tree>>, text |-> text, kind |-> "whole"]

T_nest == TArr(<<Elem(TArr(<<Elem(TArr(<<>>))>>))>>)
JohnText == Serialise(T_john, SP)
\* '{"name": "John"' : the root object is never closed
TruncatedText == SubSeq(JohnText, 1, 15)

K_hobbies == <<"h", "o", "b", "b", "i", "e", "s">>
K_address == <<"a", "d", "d", "r", "e", "s", "s">>
S_reading == <<"r", "e", "a", "d", "i", "n", "g">>

\* {"name": "John", "age": 30, "hobbies": ["reading", true], "address": null}
T_stats ==
    TObj(<<Member(K_name, TStr(S_John)), Member(K_age, TNum(3, 1)),
           Member(K_hobbies, TArr(<<Elem(TStr(S_reading)), Elem(TBool(TRUE))>>)),
           Member(K_address, TNull)>>)

K_text == <<"t", "e", "x", "t">>
\* Hello "World"!
S_HelloWorld ==
    <<"H", "e", "l", "l", "o", " ", QUOTE, "W", "o", "r", "l", "d", QUOTE, "!">>

\* {"text": "Hello \"World\"!"}
T_escapes == TObj(<<Member(K_text, TStr(S_HelloWorld))>>)

\* '{"name": "John", /* comment */ "age": 30 // another comment\n}'
CommentedText ==
    SubSeq(JohnText, 1, 17)
    \o <<"/", "*", " ", "c", "o", "m", "m", "e", "n", "t", " ", "*", "/", " ">>
    \o SubSeq(JohnText, 18, 26)
    \o <<" ", "/", "/", " ", "a", "n", "o", "t", "h", "e", "r", " ",
         "c", "o", "m", "m", "e", "n", "t", "\n">>
    \o <<"}">>

K_url == <<"u", "r", "l">>
\* http://example.com
S_url ==
    <<"h", "t", "t", "p", ":", "/", "/", "e", "x", "a", "m", "p", "l", "e",
      ".", "c", "o", "m">>

\* {"url": "http://example.com"}
T_url == TObj(<<Member(K_url, TStr(S_url))>>)

\* [1,/*2,*/3//4\n] : comments whose text holds the characters of values
T_13 == TArr(<<Elem(TNum(1, 0)), Elem(TNum(3, 0))>>)
CommentedValuesText ==
    <<"[", "1", ",", "/", "*", "2", ",", "*", "/", "3", "/", "/", "4", "\n", "]">>

Streams ==
    { WellFormed(<<T_a1>>, <<>>, <<>>),
      WellFormed(<<T_nums>>, <<>>, <<>>),
      WellFormed(<<T_words>>, <<>>, <<>>),
      WellFormed(<<TStr(S_John)>>, <<>>, <<>>),
      WellFormed(<<TNum(42, 0)>>, <<>>, <<>>),
      WellFormed(<<T_deep>>, <<>>, <<>>),
      WellFormed(<<T_john>>, SP, <<>>),
      WellFormed(<<T_empty, T_a1>>, <<>>, <<>>),
      WellFormed(<<T_a1, T_nums>>, <<>>, <<"\n">>),
      WellFormed(<<T_empty, T_nest>>, <<>>, <<>>),
      Malformed(TruncatedText, "truncated"),
      Malformed(<<"}">>, "unmatched"),
      Malformed(<<"[", "1", "}">>, "unmatched"),
      Malformed(<<"[", "t", "x", "]">>, "literal"),
      Malformed(<<"[", "-", "x", "]">>, "literal"),
      Whole(T_stats, Serialise(T_stats, SP)),
      Whole(T_escapes, Serialise(T_escapes, SP)) }

\* the maxDepth options a parser is constructed with
DepthOptions == {2, INFINITY}

\* options = {} but for maxDepth
PlainOptions(maxDepth) == Options(maxDepth, FALSE, "none", <<>>, <<>>)

DOT == <<".">>
K_city == <<"c", "i", "t", "y">>
K_user == <<"u", "s", "e", "r">>
K_users == <<"u", "s", "e", "r", "s">>
K_data == <<"d", "a", "t", "a">>
K_price == <<"p", "r", "i", "c", "e">>
K_qty == <<"q", "t", "y">>
K_values == <<"v", "a", "l", "u", "e", "s">>
K_when == <<"w", "h", "e", "n">>
S_Jane == <<"J", "a", "n", "e">>
S_NewYork == <<"N", "e", "w", " ", "Y", "o", "r", "k">>
S_NewYear ==
    <<"2", "0", "2", "3", "-", "0", "1", "-", "0", "1", "T",
      "0", "0", ":", "0", "0", ":", "0", "0", "Z">>

\* path patterns as the caller writes them
P_name_bang == K_name \o <<"!">>
P_user_name == K_user \o DOT \o K_name
P_user_age == K_user \o DOT \o K_age
P_users_any_name == K_users \o DOT \o <<"*">> \o DOT \o K_name
P_data_price == K_data \o DOT \o K_price
P_data_values == K_data \o DOT \o K_values
P_any_any == <<"*">> \o DOT \o <<"*">>

T_person ==
    <<Member(K_name, TStr(S_John)), Member(K_age, TNum(3, 1)),
      Member(K_city, TStr(S_NewYork))>>
\* {"name":"John","age":30,"city":"New York"}
T_city == TObj(T_person)
\* {"user":{"name":"John","age":30,"city":"New York"}}
T_user == TObj(<<Member(K_user, TObj(T_person))>>)
\* {"users":[{"name":"John","age":30},{"name":"Jane","age":25}]}
T_users ==
    TObj(<<Member(K_users,
                  TArr(<<Elem(T_john),
                         Elem(TObj(<<Member(K_name, TStr(S_Jane)),
                                     Member(K_age, TNum(25, 0))>>))>>))>>)
\* {"data":{"price":10,"qty":2}}
T_price ==
    TObj(<<Member(K_data, TObj(<<Member(K_price, TNum(1, 1)),
                                 Member(K_qty, TNum(2, 0))>>))>>)
\* {"date":"2023-01-01T00:00:00Z"}
T_date == TObj(<<Member(K_date, TStr(S_NewYear))>>)
\* {"when":{"date":"2023-01-01T00:00:00Z"}}
T_when == TObj(<<Member(K_when, T_date)>>)
\* {"data":{"values":[10,20,30]}}
T_values ==
    TObj(<<Member(K_data,
                  TObj(<<Member(K_values,
                                TArr(<<Elem(TNum(1, 1)), Elem(TNum(2, 1)),
                                       Elem(TNum(3, 1))>>))>>))>>)

Document(tree) == WellFormed(<<tree>>, <<>>, <<>>)

\* a parser as a test or an example sets it up: the text it is fed and the
\* options it is constructed with
Scenario(str, options) == [stream |-> str, options |-> options]

\* the parsers whose selective paths are set and reset
SelectiveScenarios ==
    { Scenario(Document(T_city), Options(INFINITY, TRUE, "none", <<>>, <<>>)),
      Scenario(Document(T_user), PlainOptions(INFINITY)),
      Scenario(Document(T_users), PlainOptions(INFINITY)),
      Scenario(Document(T_price),
               Options(INFINITY, FALSE, "none",
                       <<[path |-> P_any_any, transform |-> "double"]>>, <<>>)),
      Scenario(Document(T_values),
               Options(INFINITY, TRUE, "none", <<>>,
                       <<[path |-> P_any_any, type |-> "average"]>>)),
      Scenario(WellFormed(<<T_a1, T_nest>>, <<>>, <<>>), PlainOptions(2)) }

\* the parsers with a reviver, and those that are given transforms and
\* aggregations
PipelineScenarios ==
    { Scenario(Document(T_price),
               Options(INFINITY, FALSE, "none",
                       <<[path |-> P_data_price, transform |-> "double"]>>,
                       <<[path |-> P_any_any, type |-> "min"]>>)),
      Scenario(Document(T_date), Options(INFINITY, FALSE, "date", <<>>, <<>>)),
      Scenario(Document(T_when), Options(INFINITY, FALSE, "wrapped", <<>>, <<>>)),
      Scenario(Document(T_values),
               Options(INFINITY, FALSE, "none", <<>>,
                       <<[path |-> P_data_values, type |-> "average"]>>)),
      Scenario(Whole(T_john, CommentedText), WithComments(PlainOptions(INFINITY))),
      Scenario(Whole(T_13, CommentedValuesText),
               WithComments(PlainOptions(INFINITY))),
      Scenario(Whole(T_url, Serialise(T_url, SP)),
               WithComments(PlainOptions(INFINITY))) }

\* the lists setSelectivePaths is called with
PathLists ==
    { <<K_name, K_age>>, <<P_user_name, P_user_age>>, <<P_users_any_name>>,
      <<P_name_bang>>, <<K_name, P_name_bang>>, <<P_users_any_name, P_name_bang>>,
      <<K_a>>, <<>> }

\* the paths addTransform and addAggregation are called with
TransformPaths == {P_data_price, P_any_any}
AggregationPaths == {P_data_values, P_any_any}

(* ---------------------------- schema validation -------------------------- *)
\* validateType(data, type)
validateType(data, type) ==
    CASE type = "string" -> data.t \in {"str", "date"}
      [] type = "number" -> data.t = "num"
      [] type = "boolean" -> data.t = "bool"
      [] type = "null" -> data.t = "null"
      [] type = "object" -> data.t \in {"obj", "date"}
      [] type = "array" -> data.t = "arr"
      [] OTHER -> FALSE

\* a schema node whose only field is type: one type name (list = FALSE, the
\* name being types[1]) or a list of type names
TypeNode(types, list) == [type |-> types, list |-> list]

\* schema.type === name || (Array.isArray(schema.type) && schema.type.includes(name))
Mentions(schema, name) ==
    IF schema.list THEN \E j \in 1..Len(schema.type) : schema.type[j] = name
    ELSE schema.type[1] = name

\* the type validation at the head of validateAgainstSchema
TypeValidation(data, schema) ==
    IF schema.list
    THEN \E j \in 1..Len(schema.type) : validateType(data, schema.type[j])
    ELSE validateType(data, schema.type[1])

\* the object, array, string and number blocks for a node with no keyword
\* but type: what is left of each is its test of the kind of value
ObjectValidation(data, schema) ==
    Mentions(schema, "object") => data.t \in {"obj", "date"}
ArrayValidation(data, schema) ==
    Mentions(schema, "array") => data.t = "arr"
StringValidation(data, schema) ==
    Mentions(schema, "string") => data.t \in {"str", "date"}
NumberValidation(data, schema) ==
    Mentions(schema, "number") => data.t = "num"

\* validateAgainstSchema(data, schema), schema having no field but type
validateAgainstSchema(data, schema) ==
    /\ TypeValidation(data, schema)
    /\ ObjectValidation(data, schema)
    /\ ArrayValidation(data, schema)
    /\ StringValidation(data, schema)
    /\ NumberValidation(data, schema)

\* the type names of a schema, and one that is none of them
TypeNames == {"string", "number", "boolean", "null", "object", "array", "integer"}

\* the schema nodes validated against: a single name, or a list of one or
\* two names
TypeNodes ==
    {TypeNode(<<a>>, FALSE) : a \in TypeNames}
    \cup {TypeNode(<<a>>, TRUE) : a \in TypeNames}
    \cup {TypeNode(<<a, b>>, TRUE) : a \in TypeNames, b \in TypeNames}

\* the values validated: one of each kind
SchemaValues ==
    {TStr(S_John), TNum(5, 0), TBool(TRUE), TNull, T_john, T_nums, TDate(S_John)}

\* no validation was made yet
NoValidation == [made |-> FALSE]

(* ---------------------------- state -------------------------------------- *)
VARIABLES
    buffer, stack, currentKey, isInString, stringBuffer, isEscaped,
    isComplete, rootObject, lastCompleteToken, statistics, currentPath,
    selectivePaths, maxDepth, heap, events, thrown,
    outputStream, output, outputEnded, transforms, aggregations, reviver,
    allowComments,
    stream, chunks, ended, options, calls, raised,
    parsePromise, immediates,
    sizer,
    validation,
    errorListener,
    subChunks

parserVars ==
    <<buffer, stack, currentKey, isInString, stringBuffer, isEscaped,
      isComplete, rootObject, lastCompleteToken, statistics, currentPath,
      selectivePaths, maxDepth, heap, events, thrown,
      outputStream, output, outputEnded, transforms, aggregations, reviver,
      allowComments>>

\* the fields AsyncStreamingJsonParser adds (parsePromise is TRUE when the
\* field holds a promise) and the callbacks setImmediate has queued
asyncVars == <<parsePromise, immediates>>

vars ==
    <<parserVars, stream, chunks, ended, options, calls, raised, asyncVars,
      sizer, validation, errorListener,
      subChunks>>

RECURSIVE Sum(_)
Sum(lengths) == IF Len(lengths) = 0 THEN 0 ELSE Head(lengths) + Sum(Tail(lengths))

\* number of characters of the stream handed to process so far
fed == Sum(chunks)

\* the parser object as a record
Parser ==
    [buffer |-> buffer, stack |-> stack, currentKey |-> currentKey,
     isInString |-> isInString, stringBuffer |-> stringBuffer,
     isEscaped |-> isEscaped, isComplete |-> isComplete,
     rootObject |-> rootObject, lastCompleteToken |-> lastCompleteToken,
     statistics |-> statistics, currentPath |-> currentPath,
     selectivePaths |-> selectivePaths, maxDepth |-> maxDepth,
     heap |-> heap, events |-> events, thrown |-> thrown,
     outputStream |-> outputStream, output |-> output,
     outputEnded |-> outputEnded, transforms |-> transforms,
     aggregations |-> aggregations, reviver |-> reviver,
     allowComments |-> allowComments]

ParserBecomes(st) ==
    /\ buffer' = st.buffer
    /\ stack' = st.stack
    /\ currentKey' = st.currentKey
    /\ isInString' = st.isInString
    /\ stringBuffer' = st.stringBuffer
    /\ isEscaped' = st.isEscaped
    /\ isComplete' = st.isComplete
    /\ rootObject' = st.rootObject
    /\ lastCompleteToken' = st.lastCompleteToken
    /\ statistics' = st.statistics
    /\ currentPath' = st.currentPath
    /\ selectivePaths' = st.selectivePaths
    /\ maxDepth' = st.maxDepth
    /\ heap' = st.heap
    /\ events' = st.events
    /\ thrown' = st.thrown
    /\ outputStream' = st.outputStream
    /\ output' = st.output
    /\ outputEnded' = st.outputEnded
    /\ transforms' = st.transforms
    /\ aggregations' = st.aggregations
    /\ reviver' = st.reviver
    /\ allowComments' = st.allowComments

ParserIs(st) ==
    /\ buffer = st.buffer
    /\ stack = st.stack
    /\ currentKey = st.currentKey
    /\ isInString = st.isInString
    /\ stringBuffer = st.stringBuffer
    /\ isEscaped = st.isEscaped
    /\ isComplete = st.isComplete
    /\ rootObject = st.rootObject
    /\ lastCompleteToken = st.lastCompleteToken
    /\ statistics = st.statistics
    /\ currentPath = st.currentPath
    /\ selectivePaths = st.selectivePaths
    /\ maxDepth = st.maxDepth
    /\ heap = st.heap
    /\ events = st.events
    /\ thrown = st.thrown
    /\ outputStream = st.outputStream
    /\ output = st.output
    /\ outputEnded = st.outputEnded
    /\ transforms = st.transforms
    /\ aggregations = st.aggregations
    /\ reviver = st.reviver
    /\ allowComments = st.allowComments

\* a parser with no option but maxDepth, fed one of Streams
Init ==
    /\ stream \in Streams
    /\ \E d \in DepthOptions :
          /\ options = PlainOptions(d)
          /\ ParserIs(NewParser(d))
    /\ chunks = <<>>
    /\ ended = FALSE
    /\ calls = <<>>
    /\ raised = ""
    /\ parsePromise = FALSE
    /\ immediates = 0
    /\ sizer = NoSizer
    /\ validation = NoValidation
    /\ errorListener = TRUE
    /\ subChunks = NoSubChunks

\* a parser set up as one of the given scenarios
SetUp(scenarios) ==
    /\ \E sc \in scenarios :
          /\ stream = sc.stream
          /\ options = sc.options
          /\ ParserIs(Construct(sc.options))
    /\ chunks = <<>>
    /\ ended = FALSE
    /\ calls = <<>>
    /\ raised = ""
    /\ parsePromise = FALSE
    /\ immediates = 0
    /\ sizer = NoSizer
    /\ validation = NoValidation
    /\ errorListener = TRUE
    /\ subChunks = NoSubChunks

SelectiveInit == SetUp(SelectiveScenarios)

PipelineInit == SetUp(PipelineScenarios)

\* MaxCalls bounds the calls made before end(): process and configuration
CallsLeft == Len(chunks) + Len(calls) < MaxCalls

\* the caller hands the next k characters of the stream to process (all of
\* them when the stream is a document for a single call); callers feed before
\* they end, so nothing is fed once end() was called
Process ==
    /\ ~ended
    /\ CallsLeft
    /\ \E k \in 1..(Len(stream.text) - fed) :
         /\ stream.kind = "whole" => k = Len(stream.text)
         /\ ParserBecomes(process(Parser, SubSeq(stream.text, fed + 1, fed + k)))
         /\ chunks' = Append(chunks, k)
    /\ UNCHANGED <<stream, ended, options, calls, raised, asyncVars, sizer, validation,
                   errorListener,
                   subChunks>>

\* the caller calls end()
End ==
    /\ ~ended
    /\ ParserBecomes(end(Parser))
    /\ ended' = TRUE
    /\ UNCHANGED <<stream, chunks, options, calls, raised, asyncVars, sizer, validation,
                   errorListener,
                   subChunks>>

\* a configuration call as the history keeps it: what was called with which
\* arguments, and after how many process calls
Call(op, paths, path, kind) ==
    [op |-> op, paths |-> paths, path |-> path, kind |-> kind, at |-> Len(chunks)]

\* a configuration call returned st; an exception it threw goes to the caller
Configured(st, call) ==
    /\ ParserBecomes([st EXCEPT !.thrown = ""])
    /\ raised' = st.thrown
    /\ calls' = Append(calls, call)
    /\ UNCHANGED <<stream, chunks, ended, options, asyncVars, sizer, validation,
                   errorListener,
                   subChunks>>

SetSelectivePaths ==
    /\ ~ended
    /\ CallsLeft
    /\ \E paths \in PathLists :
          Configured(setSelectivePaths(Parser, paths),
                     Call("setSelectivePaths", paths, <<>>, ""))

ResetSelectivePaths ==
    /\ ~ended
    /\ CallsLeft
    /\ Configured(resetSelectivePaths(Parser),
                  Call("resetSelectivePaths", <<>>, <<>>, ""))

AddTransform ==
    /\ ~ended
    /\ CallsLeft
    /\ \E path \in TransformPaths, fn \in TransformFunctions :
          Configured(addTransform(Parser, path, fn),
                     Call("addTransform", <<>>, path, fn))

AddAggregation ==
    /\ ~ended
    /\ CallsLeft
    /\ \E path \in AggregationPaths :
          Configured(addAggregation(Parser, path, "average"),
                     Call("addAggregation", <<>>, path, "average"))

\* the notification of AsyncStreamingJsonParser
ChunkProcessedEvent ==
    [type |-> "chunkProcessed", value |-> TUndef, msg |-> "", results |-> <<>>]

\* AsyncStreamingJsonParser.process(chunk): the caller hands the next k
\* characters to it, whether or not the promise of an earlier call settled
\* parseBuffer() of a parser with or without a listener for "error": with
\* none, emit("error", error) throws the error again, out of every catch
\* block that emits it, and the exception leaves the call
ListenedParse(st, listener) ==
    IF listener THEN parseBuffer(st) ELSE FinishScan(ScanLoop(st, 0))

\* process(chunk) returned or threw with the parser as st: the exception
\* rejects the promise of this call; otherwise the deferred step is queued
\* unless a promise is pending
ProcessReturns(st) ==
    /\ ParserBecomes([st EXCEPT !.thrown = ""])
    /\ raised' = st.thrown
    /\ IF st.thrown = "" /\ ~parsePromise
       THEN parsePromise' = TRUE /\ immediates' = immediates + 1
       ELSE UNCHANGED asyncVars

AsyncProcess ==
    /\ Len(chunks) < MaxCalls
    /\ \E k \in 1..(Len(stream.text) - fed) :
         /\ stream.kind = "whole" => k = Len(stream.text)
         /\ ProcessReturns(
               ListenedParse(Appended(Parser, SubSeq(stream.text, fed + 1, fed + k)),
                             errorListener))
         /\ chunks' = Append(chunks, k)
    /\ UNCHANGED <<stream, ended, options, calls, sizer, validation, errorListener,
                   subChunks>>

\* asyncParseBuffer(): super.parseBuffer(), then the notification unless
\* parseBuffer threw
asyncParseBuffer(st, listener) ==
    IF ListenedParse(st, listener).thrown = ""
    THEN emit(ListenedParse(st, listener), ChunkProcessedEvent)
    ELSE ListenedParse(st, listener)

\* the event loop runs a callback queued by setImmediate: asyncParseBuffer,
\* which resolves the pending promise unless parseBuffer threw
DeferredReturns(st) ==
    /\ ParserBecomes([st EXCEPT !.thrown = ""])
    /\ parsePromise' = (parsePromise /\ st.thrown # "")
    /\ immediates' = immediates - 1

RunImmediate ==
    /\ immediates > 0
    /\ DeferredReturns(asyncParseBuffer(Parser, errorListener))
    /\ calls' = Append(calls, Call("immediate", <<>>, <<>>, ""))
    /\ UNCHANGED <<stream, chunks, ended, options, raised, sizer, validation,
                   errorListener,
                   subChunks>>

AsyncNext == AsyncProcess \/ RunImmediate

\* AsyncStreamingJsonParser with no option but maxDepth, fed one of Streams
AsyncSpec == Init /\ [][AsyncNext]_vars

\* the same parsers, with and without a listener for "error"
AsyncLiveInit ==
    /\ stream \in Streams
    /\ \E d \in DepthOptions :
          /\ options = PlainOptions(d)
          /\ ParserIs(NewParser(d))
    /\ chunks = <<>>
    /\ ended = FALSE
    /\ calls = <<>>
    /\ raised = ""
    /\ parsePromise = FALSE
    /\ immediates = 0
    /\ sizer = NoSizer
    /\ validation = NoValidation
    /\ errorListener \in BOOLEAN
    /\ subChunks = NoSubChunks

\* the event loop takes a queued callback off its queue: the step that
\* RunImmediate is, and no other action
Dequeued == immediates > 0 /\ immediates' = immediates - 1

\* the event loop runs every callback that setImmediate queued
AsyncLiveSpec ==
    AsyncLiveInit /\ [][AsyncNext]_vars /\ WF_immediates(Dequeued)

\* an AdaptiveChunkSizer on its own, next to a parser nothing is fed to
SizerInit ==
    /\ stream = WellFormed(<<T_john>>, SP, <<>>)
    /\ options = PlainOptions(INFINITY)
    /\ ParserIs(NewParser(INFINITY))
    /\ chunks = <<>>
    /\ ended = FALSE
    /\ calls = <<>>
    /\ raised = ""
    /\ parsePromise = FALSE
    /\ immediates = 0
    /\ sizer \in {NewSizer(sizing) : sizing \in SizerOptions}
    /\ validation = NoValidation
    /\ errorListener = TRUE
    /\ subChunks = NoSubChunks

\* addMetrics(m) on the sizer; the history counts the calls
AddMetrics ==
    /\ subChunks.returned
    /\ Len(calls) < MaxMetrics
    /\ \E m \in SizerSamples : sizer' = addMetrics(sizer, m)
    /\ calls' = Append(calls, Call("addMetrics", <<>>, <<>>, ""))
    /\ UNCHANGED <<parserVars, stream, chunks, ended, options, raised, asyncVars,
                   validation, errorListener,
                   subChunks>>

\* the return of process(chunk) on a parser with a sizer: the sub-chunk loop
\* and, when it has returned, updateChunkSizeMetrics()
SizedReturns(run, chunk, processingTime) ==
    /\ ParserBecomes([run.st EXCEPT !.thrown = ""])
    /\ raised' = run.st.thrown
    /\ subChunks' = [slices |-> run.slices, returned |-> run.i >= Len(chunk)]
    /\ sizer' = IF run.i >= Len(chunk)
                THEN addMetrics(sizer, ChunkMetrics(run.st, processingTime))
                ELSE sizer

\* process(chunk) on a parser constructed with adaptiveChunkSizing, the
\* chunk being the text of the stream
SizedProcess ==
    /\ subChunks.returned
    /\ Len(calls) < MaxSized
    /\ chunks = <<>>
    /\ \E processingTime \in ProcessingTimes :
          SizedReturns(SubChunkLoop(Parser, stream.text, getChunkSize(sizer)),
                       stream.text, processingTime)
    /\ chunks' = Append(chunks, Len(stream.text))
    /\ calls' = Append(calls, Call("process", <<>>, <<>>, ""))
    /\ UNCHANGED <<stream, ended, options, asyncVars, validation,
                   errorListener>>

SizerSpec == SizerInit /\ [][AddMetrics]_vars

\* the sizer of a parser in the states addMetrics reaches before and after
\* the first adjustment, and the parser's process call under it
EarlyAddMetrics ==
    /\ Len(calls) < MaxSized
    /\ AddMetrics

SizedNext == EarlyAddMetrics \/ SizedProcess

SizedSpec == SizerInit /\ [][SizedNext]_vars

\* validateAgainstSchema(data, schema) is called; the last call and what it
\* returned are kept
Validate ==
    /\ \E data \in SchemaValues, schema \in TypeNodes :
          validation' = [made |-> TRUE, data |-> data, schema |-> schema,
                         valid |-> validateAgainstSchema(data, schema)]
    /\ UNCHANGED <<parserVars, stream, chunks, ended, options, calls, raised,
                   asyncVars, sizer, errorListener,
                   subChunks>>

\* the schema validator on its own, next to a parser nothing is fed to
SchemaInit ==
    SetUp({Scenario(WellFormed(<<T_empty>>, <<>>, <<>>), PlainOptions(INFINITY))})

SchemaSpec == SchemaInit /\ [][Validate]_vars

Next == Process \/ End

Spec == Init /\ [][Next]_vars

SelectiveNext ==
    \/ Process
    \/ End
    \/ SetSelectivePaths
    \/ ResetSelectivePaths

\* parsers whose selective paths are set and reset around the input
SelectiveSpec == SelectiveInit /\ [][SelectiveNext]_vars

PipelineNext ==
    \/ Process
    \/ End
    \/ AddTransform
    \/ AddAggregation

\* parsers with transforms, aggregations or a reviver
PipelineSpec == PipelineInit /\ [][PipelineNext]_vars

(* ---------------------------- observations -------------------------------- *)
RECURSIVE DataValues(_)
\* the values delivered by the data events of an event sequence, in order
DataValues(evs) ==
    IF Len(evs) = 0 THEN <<>>
    ELSE (IF Head(evs).type = "data" THEN <<Head(evs).value>> ELSE <<>>)
         \o DataValues(Tail(evs))

HasError(evs) == \E j \in 1..Len(evs) : evs[j].type = "error"

RECURSIVE Leaves(_)
\* the scalar leaves of a tree
Leaves(tree) ==
    IF tree.t \in {"obj", "arr"}
    THEN UNION {Leaves(tree.items[j].v) : j \in 1..Len(tree.items)}
    ELSE {tree}

RECURSIVE CountLeaves(_, _)
\* how many leaves of type t a tree has
CountLeaves(tree, t) ==
    IF tree.t \in {"obj", "arr"}
    THEN Sum([j \in 1..Len(tree.items) |-> CountLeaves(tree.items[j].v, t)])
    ELSE IF tree.t = t THEN 1 ELSE 0

StreamLeaves == UNION {Leaves(stream.values[j]) : j \in 1..Len(stream.values)}

StreamCount(t) == Sum([j \in 1..Len(stream.values) |-> CountLeaves(stream.values[j], t)])

\* number of opening brackets in a text
Openers(text) == Cardinality({j \in 1..Len(text) : text[j] \in {"{", "["}})

AllFed == fed = Len(stream.text)

\* getCurrentJson() as the caller sees it
getCurrentJson == Resolve(heap, rootObject)

\* the parser after the whole stream was handed to one process call
OneShot == process(NewParser(maxDepth), stream.text)

RECURSIVE Written(_)
\* the text the output stream received: its writes one after the other
Written(writes) ==
    IF Len(writes) = 0 THEN <<>> ELSE Head(writes) \o Written(Tail(writes))

\* the one document of the stream and its text without white space
TheDocument == stream.values[1]

\* the whole text was handed to a single process call
FedAtOnce == chunks = <<Len(stream.text)>>

\* setSelectivePaths(paths) was the only configuration call, made before any
\* input, and it returned normally
OnlySet(paths) ==
    /\ calls = <<[op |-> "setSelectivePaths", paths |-> paths, path |-> <<>>,
                  kind |-> "", at |-> 0]>>
    /\ raised = ""

(* ---------------------------- claims --------------------------------------- *)
\* C1: chunk-boundary invariance -- once a well-formed stream has been fed
\* completely, in whatever chunks, the data events carry the same values in
\* the same order as when the whole text is fed in one process call.
C1_ChunkInvariance ==
    (stream.kind = "wellFormed" /\ AllFed /\ ~ended)
        => DataValues(events) = DataValues(OneShot.events)

\* C2: no value is materialised from partial token text -- every scalar that
\* reaches a data event of a well-formed stream is a scalar of the stream, and
\* no number, keyword or null is counted more often than the stream has them.
C2_NoPartialTokens ==
    (stream.kind = "wellFormed" /\ ~ended)
        => /\ \A j \in 1..Len(events) :
                events[j].type = "data" =>
                    \A leaf \in Leaves(events[j].value) :
                        leaf.t \in {"str", "num", "bool", "null"} => leaf \in StreamLeaves
           /\ statistics.numberCount <= StreamCount("num")
           /\ statistics.booleanCount <= StreamCount("bool")
           /\ statistics.nullCount <= StreamCount("null")

\* C3: round trip -- after all text of one well-formed document has been fed
\* (no depth limit, no selective paths), getCurrentJson() equals the standard
\* parse of the document.
C3_RoundTrip ==
    (stream.kind = "wellFormed" /\ Len(stream.values) = 1 /\ AllFed /\ ~ended
        /\ maxDepth = INFINITY /\ ~selectivePaths.set)
        => getCurrentJson = stream.values[1]

\* C4: a stream of N concatenated top-level values yields exactly N data
\* events, one per value, in text order, however the text is cut into calls.
C4_OneEventPerValue ==
    (stream.kind = "wellFormed" /\ AllFed /\ ~ended /\ maxDepth = INFINITY)
        => DataValues(events) = stream.values

\* C5: a process call emits a data event only when no container is open.
C5_DataOnlyWhenClosed ==
    [][(~ended' /\ Len(events') > Len(events)
            /\ events'[Len(events')].type = "data")
        => Len(stack') = 0]_vars

\* C6: feeding '{"name": ' then '"John", ' then '"age": 30}' produces exactly
\* the data events {}, {name:"John"}, {name:"John",age:30}, in that order.
C6_PartialObjectEvents ==
    (stream.text = JohnText /\ chunks = <<9, 8, 10>> /\ ~ended)
        => DataValues(events) =
             <<T_empty, TObj(<<Member(K_name, TStr(S_John))>>), T_john>>

\* C7: depth limit -- the number of open containers never exceeds maxDepth.
C7_DepthLimit == Len(stack) <= maxDepth

\* C8: after process('{"name": "John"') and end() an error event has been
\* emitted: the unclosed root is reported.
C8_TruncatedReported ==
    (stream.text = TruncatedText /\ AllFed /\ ended) => HasError(events)

\* C9: an unmatched closing bracket emits an error event and leaves the
\* container stack and the depth counter as the opening brackets left them,
\* and completes no value.
C9_UnmatchedCloser ==
    (stream.kind = "unmatched" /\ AllFed /\ Len(chunks) = 1 /\ ~ended)
        => /\ HasError(events)
           /\ Len(stack) = Openers(stream.text)
           /\ statistics.currentDepth = Openers(stream.text)

\* C10: a malformed literal ('tx', '-x') emits an error event and no value,
\* in particular no null, is materialised for it.
C10_MalformedLiteral ==
    (stream.kind = "literal" /\ AllFed /\ ~ended)
        => /\ HasError(events)
           /\ statistics.nullCount = 0
           /\ \A j \in 1..Len(events) :
                events[j].type = "data" => TNull \notin Leaves(events[j].value)

\* C11: after setSelectivePaths(["name","age"]), processing
\* {"name":"John","age":30,"city":"New York"} yields the one data value
\* {name:"John",age:30}, and the text written to the sink is its
\* serialization {"name":"John","age":30}.
C11_TopLevelProjection ==
    (stream.values = <<T_city>> /\ outputStream /\ OnlySet(<<K_name, K_age>>)
        /\ FedAtOnce /\ ~ended)
        => /\ DataValues(events) = <<T_john>>
           /\ Written(output) = Serialise(T_john, <<>>)

\* C12: with the patterns ["user.name","user.age"] the containers on the way
\* to a selected descendant are traversed: the document
\* {"user":{"name":"John","age":30,"city":"New York"}} yields the one data
\* value {user:{name:"John",age:30}}.
C12_NestedPatterns ==
    (stream.values = <<T_user>> /\ OnlySet(<<P_user_name, P_user_age>>)
        /\ FedAtOnce /\ ~ended)
        => DataValues(events) = <<TObj(<<Member(K_user, T_john)>>)>>

\* the call made last
LastCall == calls[Len(calls)]

\* C13: setSelectivePaths(["users.*.name"]) is accepted without error, and
\* {"users":[{"name":"John","age":30},{"name":"Jane","age":25}]} then yields
\* the one data value {users:[{name:"John"},{name:"Jane"}]}.
C13_WildcardAccepted ==
    (stream.values = <<T_users>> /\ Len(calls) = 1 /\ LastCall.at = 0
        /\ LastCall.op = "setSelectivePaths"
        /\ LastCall.paths = <<P_users_any_name>>)
        => /\ raised = ""
           /\ (FedAtOnce /\ ~ended) =>
                DataValues(events) =
                    <<TObj(<<Member(K_users,
                        TArr(<<Elem(TObj(<<Member(K_name, TStr(S_John))>>)),
                               Elem(TObj(<<Member(K_name, TStr(S_Jane))>>))>>))>>)>>

\* a path with a character that is no letter, digit, '.' or '*'
Offending(path) ==
    \E j \in 1..Len(path) :
        ~(path[j] \in LowerCase \cup UpperCase \cup {".", "*"} \/ isDigit(path[j]))

\* C14: a setSelectivePaths call with a list in which some path has a
\* character outside letters, digits, '.' and '*' raises 'Invalid path: '
\* followed by such a path of the list, and leaves the parser, its filter
\* included, as it was before the call.
C14_InvalidRejected ==
    [][(Len(calls') = Len(calls) + 1
            /\ calls'[Len(calls')].op = "setSelectivePaths"
            /\ \E j \in 1..Len(calls'[Len(calls')].paths) :
                  Offending(calls'[Len(calls')].paths[j]))
        => /\ \E j \in 1..Len(calls'[Len(calls')].paths) :
                /\ Offending(calls'[Len(calls')].paths[j])
                /\ raised' = "Invalid path: " \o TextOf(calls'[Len(calls')].paths[j])
           /\ parserVars' = parserVars]_vars

RECURSIVE Replay(_, _, _)
\* the parser st after process calls of the given sizes on the stream's text
\* from position from on
Replay(st, from, sizes) ==
    IF Len(sizes) = 0 THEN st
    ELSE Replay(process(st, SubSeq(stream.text, from + 1, from + Head(sizes))),
                from + Head(sizes), Tail(sizes))

\* a parser constructed with the same options on which no configuration call
\* was made, after the same process calls and the same end()
NeverSet ==
    IF ended THEN end(Replay(Construct(options), 0, chunks))
    ELSE Replay(Construct(options), 0, chunks)

\* setSelectivePaths and then resetSelectivePaths were called before any input
SetThenReset ==
    /\ Len(calls) = 2
    /\ calls[1].op = "setSelectivePaths"
    /\ calls[2].op = "resetSelectivePaths"
    /\ calls[2].at = 0

\* C15: a parser on which setSelectivePaths(P) and then resetSelectivePaths()
\* were called before any input emits the same data values, in the same
\* order, as a parser on which selective paths were never set.
C15_ResetRestores ==
    SetThenReset => DataValues(events) = DataValues(NeverSet.events)

\* the test's case: a filter was installed and reset, the city document was
\* then processed and came out whole
C15_Witness ==
    /\ SetThenReset
    /\ calls[1].paths = <<K_name, K_age>>
    /\ stream.values = <<T_city>>
    /\ FedAtOnce
    /\ DataValues(events) = <<T_city>>

\* C16: after setSelectivePaths([]) everything is included -- fed a whole
\* text, the parser emits the same data values as a parser on which selective
\* paths were never set.
C16_EmptyListPassThrough ==
    (OnlySet(<<>>) /\ FedAtOnce /\ ~ended)
        => DataValues(events) = DataValues(NeverSet.events)

\* documents none of whose nodes below the root is selected by ["name","age"]
Unselected == {T_users, T_values, T_price}

\* C17: nodes excluded by the filter have no effect -- with the filter
\* ["name","age"] on a document whose only top-level key is another one,
\* nothing below the root is included: no array, string or number is
\* counted, no object but the root, the depth stays at the root's, no data
\* value has a member, and no aggregation is updated.
C17_ExcludedNoEffect ==
    (Len(stream.values) = 1 /\ TheDocument \in Unselected
        /\ OnlySet(<<K_name, K_age>>) /\ ~ended)
        => /\ statistics.arrayCount = 0
           /\ statistics.stringCount = 0
           /\ statistics.numberCount = 0
           /\ statistics.objectCount <= 1
           /\ statistics.depth <= 1
           /\ statistics.currentDepth <= 1
           /\ Len(stack) <= 1
           /\ \A j \in 1..Len(events) :
                events[j].type = "data" => events[j].value = T_empty
           /\ aggregations = Construct(options).aggregations

RECURSIVE Transformed(_, _, _)
\* a document with every scalar replaced by what the registered transforms
\* whose pattern matches the scalar's path make of it, in registration order;
\* path is the list of keys (and element indices) from the root to the tree
Transformed(tree, path, registered) ==
    CASE tree.t = "obj" ->
            TObj([j \in 1..Len(tree.items) |->
                    Member(tree.items[j].k,
                           Transformed(tree.items[j].v,
                                       Append(path, tree.items[j].k), registered))])
      [] tree.t = "arr" ->
            TArr([j \in 1..Len(tree.items) |->
                    Elem(Transformed(tree.items[j].v,
                                     Append(path, NatText(j - 1)), registered))])
      [] OTHER ->
            Tree(tree.t, tree.s,
                 applyTransforms(registered, tree, path).m,
                 applyTransforms(registered, tree, path).e, <<>>)

\* every configuration call was made before any input
ConfiguredFirst == \A j \in 1..Len(calls) : calls[j].at = 0

\* C18: the value stored at a path is the scanned value passed through the
\* registered transforms whose pattern matches the path, in registration
\* order -- a document fed whole comes out with exactly the values at
\* matching paths transformed (a transform on "data.price" changes the price
\* under data and nothing else).
C18_TransformsApplied ==
    (Len(stream.values) = 1 /\ reviver = "none" /\ ConfiguredFirst
        /\ FedAtOnce /\ ~ended)
        => DataValues(events) = <<Transformed(TheDocument, <<>>, transforms)>>

\* reviver(key, value) on a finalized value as a listener sees it
Reviving(fn, key, tree) ==
    CASE fn = "date" -> IF key = K_date THEN TDate(tree.s) ELSE tree
      [] fn = "wrapped" ->
            IF tree.t = "obj" /\ HasKey(tree, K_date)
            THEN TDate(TreeGet(tree, K_date).s)
            ELSE tree
      [] OTHER -> tree

RECURSIVE Revived(_, _)
\* a document in which every value stored under an object key k is
\* reviver(k, t), t being the finalized value
Revived(tree, fn) ==
    CASE tree.t = "obj" ->
            TObj([j \in 1..Len(tree.items) |->
                    Member(tree.items[j].k,
                           Reviving(fn, tree.items[j].k,
                                    Revived(tree.items[j].v, fn)))])
      [] tree.t = "arr" ->
            TArr([j \in 1..Len(tree.items) |-> Elem(Revived(tree.items[j].v, fn))])
      [] OTHER -> tree

\* C19: with a reviver, every finalized value stored under an object key k
\* is reviver(k, t) -- a document fed whole to a parser with a reviver and no
\* transform comes out with each member replaced by what the reviver makes
\* of its finalized value ({"date":"2023-01-01T00:00:00Z"} stores a Date).
C19_ReviverApplied ==
    (Len(stream.values) = 1 /\ reviver # "none" /\ transforms = <<>>
        /\ FedAtOnce /\ ~ended)
        => DataValues(events) = <<Revived(TheDocument, reviver)>>

\* getAggregationResults()[path]
ResultAt(path) ==
    LET results == getAggregationResults(aggregations)
    IN results[CHOOSE j \in 1..Len(results) : results[j].path = path].value

\* C20: with 'average' registered on "data.values" at construction, once
\* {"data":{"values":[10,20,30]}} has been processed, in one or several
\* chunks, getAggregationResults()["data.values"] is 20.
C20_AverageResult ==
    (stream.values = <<T_values>> /\ calls = <<>> /\ AllFed /\ ~ended)
        => ResultAt(P_data_values) = Rat(20, 1)

\* C21: a 'min' accumulator that was fed one or more numbers holds the
\* minimum of exactly those numbers -- with 'min' registered on "*.*" at
\* construction, once {"data":{"price":10,"qty":2}} has been processed the
\* accumulator, fed 10 and 2, holds 2.
C21_MinOfFed ==
    (stream.values = <<T_price>> /\ calls = <<>> /\ FedAtOnce /\ ~ended)
        => ResultAt(P_any_any) = Rat(2, 1)

\* getStats(): the statistics without the private currentDepth
getStats(stats) ==
    [depth |-> stats.depth, objectCount |-> stats.objectCount,
     arrayCount |-> stats.arrayCount, stringCount |-> stats.stringCount,
     numberCount |-> stats.numberCount, booleanCount |-> stats.booleanCount,
     nullCount |-> stats.nullCount]

\* C22: after {"name": "John", "age": 30, "hobbies": ["reading", true],
\* "address": null} was processed in one call, one data event was emitted and
\* getStats() is {depth:2, objectCount:1, arrayCount:1, stringCount:3,
\* numberCount:1, booleanCount:1, nullCount:1}.  (The data event is emitted
\* after the scan of the call, so the listener reads the statistics the call
\* ends with.)
C22_DocumentStatistics ==
    (stream.values = <<T_stats>> /\ maxDepth = INFINITY /\ FedAtOnce /\ ~ended)
        => /\ Len(DataValues(events)) = 1
           /\ getStats(statistics) =
                [depth |-> 2, objectCount |-> 1, arrayCount |-> 1,
                 stringCount |-> 3, numberCount |-> 1, booleanCount |-> 1,
                 nullCount |-> 1]

\* the fields of getStats()
StatFields ==
    {"depth", "objectCount", "arrayCount", "stringCount", "numberCount",
     "booleanCount", "nullCount"}

\* C23: statistics are monotone -- no call (process, end, setSelectivePaths,
\* resetSelectivePaths) makes any field of getStats() smaller.
C23_StatisticsMonotone ==
    [][\A f \in StatFields :
          getStats(statistics')[f] >= getStats(statistics)[f]]_vars

\* nested containers were opened and closed over two process calls, a filter
\* was set in between, and end() was called
C23_Witness ==
    /\ ended
    /\ Len(chunks) = 2
    /\ Len(calls) = 1
    /\ calls[1].op = "setSelectivePaths"
    /\ calls[1].at = 1
    /\ statistics.depth >= 2
    /\ statistics.currentDepth < statistics.depth
    /\ statistics.stringCount >= 1

\* C24: with a sink and no selective paths, once a well-formed document has
\* been processed the text written to the sink is standard JSON text for
\* the document.  The sink receives only punctuation and JSON.stringify
\* output, without white space, so such a text is the document's compact
\* serialization.
C24_SinkWireFormat ==
    (outputStream /\ Len(stream.values) = 1 /\ calls = <<>> /\ FedAtOnce /\ ~ended)
        => Written(output) = Serialise(TheDocument, <<>>)

\* a document with comments between its tokens was handed, in one chunk, to
\* a parser constructed with allowComments
Commented ==
    /\ allowComments /\ stream.text \in {CommentedText, CommentedValuesText}
    /\ FedAtOnce /\ ~ended

\* C25: with allowComments set, a document whose comments (line comments and
\* block comments) lie between tokens inside a single chunk parses to the
\* value of the document with the comments removed.
C25_CommentsIgnored ==
    Commented => /\ ~HasError(events)
                 /\ DataValues(events) = <<TheDocument>>
                 /\ DataValues(events)
                      = DataValues(process(Construct(options),
                                           removeComments(stream.text)).events)

C25_Witness ==
    /\ Commented /\ stream.text = CommentedText
    /\ DataValues(events) = <<T_john>>

\* C26: a string token ends at the first quote that no unconsumed backslash
\* precedes and its value is the decoded text -- {"text": "Hello \"World\"!"}
\* yields the member text with the value Hello "World"!, no backslash kept.
C26_EscapesDecoded ==
    (stream.values = <<T_escapes>> /\ maxDepth = INFINITY /\ FedAtOnce /\ ~ended)
        => DataValues(events) = <<T_escapes>>

\* the data and error events among evs
IsResult(ev) == ev.type \in {"data", "error"}
Results(evs) == SelectSeq(evs, IsResult)

\* what a parser has emitted and where its parse stands: the open containers,
\* the pending key, the string accumulator and the statistics
ParseState(st) ==
    [results |-> Results(st.events),
     stack |-> [j \in 1..Len(st.stack) |-> Resolve(st.heap, RefV(st.stack[j]))],
     currentKey |-> st.currentKey,
     isInString |-> st.isInString,
     stringBuffer |-> st.stringBuffer,
     statistics |-> st.statistics]

\* the deferred step of the n-th process call ran before the next call
Awaited(n) == \E j \in 1..Len(calls) : calls[j].op = "immediate" /\ calls[j].at = n

\* the caller awaited the promise of every process call it made
EachAwaited == \A n \in 1..Len(chunks) : Awaited(n)

\* C27: cooperative mode does not change results -- when each process call
\* is awaited, AsyncStreamingJsonParser has emitted the data and error events
\* and is in the parse state (open containers, pending key, string
\* accumulator, statistics) of a StreamingJsonParser fed the same chunks; the
\* deferred step parses no input a second time.
C27_CooperativeSameResults ==
    EachAwaited => ParseState(Parser) = ParseState(Replay(Construct(options), 0, chunks))

\* the number of chunkProcessed events among evs
IsChunkProcessed(ev) == ev.type = "chunkProcessed"
ChunkProcessedCount(evs) == Len(SelectSeq(evs, IsChunkProcessed))

\* every promise process returned has settled
AllSettled == ~parsePromise /\ immediates = 0

\* C28: one chunkProcessed event per process call -- once every returned
\* promise has settled, as many chunkProcessed events were emitted as process
\* calls were made, also when calls were issued without awaiting the previous
\* one.
C28_OneNotificationPerCall ==
    AllSettled => ChunkProcessedCount(events) = Len(chunks)

\* C29: the adaptive chunk size stays within bounds -- whatever the
\* configuration and the addMetrics calls made, getChunkSize() is at least
\* minChunkSize and at most maxChunkSize.
C29_ChunkSizeWithinBounds ==
    /\ sizer.minChunkSize <= getChunkSize(sizer)
    /\ getChunkSize(sizer) <= sizer.maxChunkSize

\* the chunk size is between the configured limits
WithinLimits(sz) ==
    /\ ~RatLess(sz.chunkSize, Rat(sz.minChunkSize, 1))
    /\ ~RatLess(Rat(sz.maxChunkSize, 1), sz.chunkSize)

\* C30: adjustment direction -- on an addMetrics call that leaves at least 5
\* samples in the window, the chunk size does not increase when the average
\* processing time exceeds 1.2 x targetProcessingTime and does not decrease
\* when it is below 0.8 x targetProcessingTime, whatever the complexity.
C30_AdjustmentDirection ==
    [][(WithinLimits(sizer) /\ Len(sizer'.metrics) >= 5) =>
          /\ TooSlow(sizer') => ~RatLess(sizer.chunkSize, sizer'.chunkSize)
          /\ TooFast(sizer') => ~RatLess(sizer'.chunkSize, sizer.chunkSize)]_vars

\* C31: schema type alternatives -- against a node whose only field is a list
\* of type names, a value is valid exactly when it satisfies at least one of
\* the names (the number 5 is valid against ["string", "number"]).
C31_TypeAlternatives ==
    (validation.made /\ validation.schema.list)
        => validation.valid
             = (\E j \in 1..Len(validation.schema.type) :
                   validateType(validation.data, validation.schema.type[j]))

\* the key the frame with the given id was stored under in an object frame
KeyIn(parent, id) ==
    heap[parent].items[CHOOSE j \in 1..Len(heap[parent].items) :
                          heap[parent].items[j].v = RefV(id)].k

\* the segment the open of the j-th stack frame is to push: the key it was
\* opened under, the wildcard placeholder for an array element
SegmentOf(j) ==
    IF heap[stack[j - 1]].kind = "obj" THEN KeyIn(stack[j - 1], stack[j])
    ELSE <<"*">>

\* a prefix of a well-formed stream was scanned, once
MidParse ==
    /\ stream.kind = "wellFormed" /\ maxDepth = INFINITY
    /\ Len(chunks) = 1 /\ ~ended /\ ~HasError(events)

\* C32: path tracker consistency -- during the parse of a well-formed
\* document the current path has one segment per open container; a container
\* opened under key k contributed k, an array element a wildcard
\* placeholder, and the path is empty again when the root has closed.
C32_PathTracksStack ==
    MidParse
        => /\ Len(currentPath) = Len(stack)
           /\ \A j \in 2..Len(stack) :
                 j <= Len(currentPath) => currentPath[j] = SegmentOf(j)

\* the input of the first process call without the text the call left in the
\* buffer
Consumed == SubSeq(stream.text, 1, fed - Len(buffer))

\* C33: the pending buffer holds only unconsumed text -- what a process call
\* leaves in the buffer has not yet changed the parser's state, so the state
\* after the first call is the state the consumed part of its input alone
\* leads to, and no character is acted on again by a later scan.
C33_BufferHoldsUnconsumed ==
    (Len(chunks) = 1 /\ ~ended)
        => ParseState(Parser) = ParseState(process(Construct(options), Consumed))

\* the frame with the given id is the value of a key of the object frame
\* parent, or the last element of the array frame parent
LinkedIn(parent, id) ==
    IF heap[parent].kind = "obj"
    THEN \E j \in 1..Len(heap[parent].items) : heap[parent].items[j].v = RefV(id)
    ELSE /\ Len(heap[parent].items) > 0
         /\ heap[parent].items[Len(heap[parent].items)].v = RefV(id)

\* C34: parent linking at open -- with no selective paths, transforms or
\* reviver and well-formed input, every frame on the container stack but the
\* bottom one is already contained in the frame below it, as the value of a
\* key or as the last array element.
C34_FramesLinked ==
    (stream.kind \in {"wellFormed", "whole"} /\ ~selectivePaths.set
        /\ transforms = <<>> /\ reviver = "none")
        => \A j \in 2..Len(stack) : LinkedIn(stack[j - 1], stack[j])

\* C35: path-trie prefix invariant -- for every pattern added with addPath and
\* every proper prefix q of it, hasPrefix(q) is true.
C35_PrefixesOfPatterns ==
    selectivePaths.set
        => \A j \in 1..Len(selectivePaths.paths) :
              \A k \in 1..(Len(selectivePaths.paths[j]) - 1) :
                 hasPrefix(selectivePaths, SubSeq(selectivePaths.paths[j], 1, k))

\* C36: every promise process returns eventually settles, provided the
\* queued callbacks run -- a pending promise is settled later on, also when
\* calls were made without awaiting and when the deferred parse step raises.
C36_PromisesSettle == parsePromise ~> ~parsePromise

\* C37: comment stripping never changes string contents -- with
\* allowComments, a document without comments whose string value holds "//"
\* parses to the value it parses to without allowComments, the string having
\* exactly the characters of the input.
C37_StringsUntouched ==
    (allowComments /\ stream.values = <<T_url>> /\ FedAtOnce /\ ~ended)
        => /\ DataValues(events) = <<T_url>>
           /\ DataValues(events)
                = DataValues(process(Construct(PlainOptions(INFINITY)),
                                     stream.text).events)

RECURSIVE StringValues(_)
RECURSIVE StringValuesIn(_, _)
\* the number of string values in a tree, keys not counted
StringValues(tree) ==
    IF tree.t = "str" THEN 1
    ELSE IF tree.t \in {"obj", "arr"} THEN StringValuesIn(tree.items, 1)
    ELSE 0

StringValuesIn(items, j) ==
    IF j > Len(items) THEN 0
    ELSE StringValues(items[j].v) + StringValuesIn(items, j + 1)

\* C38: object keys are not materialized as values -- scanning a member's
\* key does not count a string, so after a document was parsed stringCount is
\* the number of string values in it.
C38_KeysNotCounted ==
    (Len(stream.values) = 1 /\ maxDepth = INFINITY /\ FedAtOnce /\ ~ended)
        => statistics.stringCount = StringValues(TheDocument)

\* C39: depth bookkeeping -- after any process calls on any input, with or
\* without selective paths, the statistics' current depth is the number of
\* frames on the container stack, and it is never negative.
C39_DepthIsStackHeight ==
    /\ statistics.currentDepth = Len(stack)
    /\ statistics.currentDepth >= 0

RECURSIVE Joined(_)
\* the sub-chunks one after another
Joined(slices) ==
    IF Len(slices) = 0 THEN <<>> ELSE Head(slices) \o Joined(Tail(slices))

\* C40: process terminates under adaptive chunk sizing: whenever the sizer's
\* minChunkSize is at least 1, in every sizer state addMetrics reaches, a
\* process call on a chunk of length n returns after at most n sub-chunk
\* iterations, each appending a non-empty slice, the slices concatenating to
\* the chunk
C40_SizedProcessTerminates ==
    (sizer.minChunkSize >= 1 /\ chunks # <<>>)
        => /\ subChunks.returned
           /\ Len(subChunks.slices) <= Len(stream.text)
           /\ \A j \in 1..Len(subChunks.slices) : subChunks.slices[j] # <<>>
           /\ Joined(subChunks.slices) = stream.text

====
